---------------------------- MODULE Spec2Model ----------------------------
(***************************************************************************)
(* A model of the twitch-rpg game-state service: the character model and   *)
(* its pure computations (models/character.go), the in-memory backend      *)
(* (storage/memory.go), the relational backend as the services use it      *)
(* (services/character_service.go, item_service.go and scripts/schema.sql) *)
(* and the combat engine of both backends (services/combat_service.go,     *)
(* services/combat_memory.go).                                             *)
(***************************************************************************)
EXTENDS Integers, Sequences, FiniteSets, TLC

(***************************************************************************)
(* Bounds of the model.                                                    *)
(***************************************************************************)
\* Levels a stored character may reach.
MaxLevel == 2
\* Entries a combat log may hold in Spec, and in SpecCombat.
MaxLog == 1
MaxDuels == 2
\* Channel points a character may have spent on upgrades.
MaxSpent == 250
\* Concurrent request workers.
NumWorkers == 2
\* Copies of one item an inventory entry may count.
MaxQuantity == 1
\* The largest id the relational store may assign.
MaxCharacterID == 2
\* SpecGrind: the level the first character is trained to, and the level at
\* which it first loses a duel.
GrindLevel == 16
SparLevel == 4
\* The largest level of a character AddExperience is applied to in SpecPure.
MaxPureLevel == 3
\* SpecMerchant: the minutes the clock runs, the merchant events created in
\* a backend, and the items bought from the in-memory backend.
MaxTime == 2
MaxMerchants == 2
MaxPurchases == 2
\* The events created in the event log.
MaxEvents == 3
\* The upgrades of one stat in SpecProgress.
MaxUpgrades == 2

(***************************************************************************)
(* Program constants.                                                      *)
(***************************************************************************)
BaseStat == 10
PointsPerUpgrade == 100
LevelExperience == 1000
CombatLevelExperience == 100
BaseExperienceReward == 50
ExperiencePerLoserLevel == 10
BasePointsReward == 25
PointsPerLoserLevel == 5

\* A nil *int equipment slot, a nil *string external id, a nil *Character.
NoItem == 0
NoTwitch == "nil"
NoChar == [ID |-> 0]
\* A nil *Equipment and a nil *Stats.
NoEquipment == [nil |-> TRUE]
NoStats == [nil |-> TRUE]

Slots == {"boots", "pants", "armor", "helmet", "ring", "chain"}
StatKinds == {"strength", "agility", "vitality", "intelligence"}

(***************************************************************************)
(* The item catalogue: the sample items the in-memory backend is           *)
(* initialised with; the relational items table is taken to hold the same  *)
(* rows.                                                                   *)
(***************************************************************************)
Items ==
    (1 :> [ID |-> 1, Type |-> "boots", StrengthBonus |-> 2, AgilityBonus |-> 1,
           VitalityBonus |-> 1, IntelligenceBonus |-> 0, Value |-> 50,
           IsSpecial |-> FALSE])
 @@ (2 :> [ID |-> 2, Type |-> "ring", StrengthBonus |-> 5, AgilityBonus |-> 3,
           VitalityBonus |-> 2, IntelligenceBonus |-> 4, Value |-> 200,
           IsSpecial |-> TRUE])
 @@ (3 :> [ID |-> 3, Type |-> "pants", StrengthBonus |-> 1, AgilityBonus |-> 3,
           VitalityBonus |-> 2, IntelligenceBonus |-> 0, Value |-> 40,
           IsSpecial |-> FALSE])

\* GetItemByID of either backend: the item, or NoItem for no such row.
GetItemByID(id) == IF id \in DOMAIN Items THEN id ELSE NoItem

(***************************************************************************)
(* models/character.go: the pure computations.                             *)
(***************************************************************************)
\* A slot table that files a ring under the chain.
SlotFieldRingAsChain(slot) ==
    CASE slot = "boots" -> "BootsID"
      [] slot = "pants" -> "PantsID"
      [] slot = "armor" -> "ArmorID"
      [] slot = "helmet" -> "HelmetID"
      [] slot = "ring" -> "ChainID"
      [] slot = "chain" -> "ChainID"

SlotField(slot) ==
    CASE slot = "boots" -> "BootsID"
      [] slot = "pants" -> "PantsID"
      [] slot = "armor" -> "ArmorID"
      [] slot = "helmet" -> "HelmetID"
      [] slot = "ring" -> "RingID"
      [] slot = "chain" -> "ChainID"

SlotOf(c, slot) ==
    CASE slot = "boots" -> c.BootsID
      [] slot = "pants" -> c.PantsID
      [] slot = "armor" -> c.ArmorID
      [] slot = "helmet" -> c.HelmetID
      [] slot = "ring" -> c.RingID
      [] slot = "chain" -> c.ChainID

CalculateBaseStats(c) ==
    [Strength |-> c.Strength, Agility |-> c.Agility,
     Vitality |-> c.Vitality, Intelligence |-> c.Intelligence]

\* The bonus one loaded equipment pointer adds (nothing for a nil pointer).
EquipmentBonus(item, field) ==
    IF item = NoItem THEN 0 ELSE Items[item][field]

RECURSIVE SumBonus(_, _, _)
SumBonus(equipment, slots, field) ==
    IF slots = {} THEN 0
    ELSE LET s == CHOOSE x \in slots : TRUE
         IN  EquipmentBonus(equipment[s], field)
               + SumBonus(equipment, slots \ {s}, field)

CalculateTotalStats(c) ==
    IF c.Equipment = NoEquipment
    THEN CalculateBaseStats(c)
    ELSE [Strength |-> c.Strength + SumBonus(c.Equipment, Slots, "StrengthBonus"),
          Agility |-> c.Agility + SumBonus(c.Equipment, Slots, "AgilityBonus"),
          Vitality |-> c.Vitality + SumBonus(c.Equipment, Slots, "VitalityBonus"),
          Intelligence |-> c.Intelligence
                             + SumBonus(c.Equipment, Slots, "IntelligenceBonus")]

CalculateCombatPower(c) ==
    LET totalStats == CalculateTotalStats(c)
    IN  (totalStats.Strength * 3) + (totalStats.Agility * 2)
          + (totalStats.Vitality * 2) + (totalStats.Intelligence * 1)
          + (c.Level * 5)

CanUpgradeStat(statType, channelPoints) ==
    channelPoints > 0 /\ statType \in StatKinds

\* A division that rounds up instead of truncating.
GoDivRoundUp(a, b) == (a + b - 1) \div b

\* Go's integer division truncates toward zero.
GoDiv(a, b) == IF a >= 0 THEN a \div b ELSE -((-a) \div b)

StatField(statType) ==
    CASE statType = "strength" -> "Strength"
      [] statType = "agility" -> "Agility"
      [] statType = "vitality" -> "Vitality"
      [] statType = "intelligence" -> "Intelligence"

\* An upgrade that charges only the points the division consumes.
UpgradeStatRefund(c, statType, channelPoints) ==
    IF ~CanUpgradeStat(statType, channelPoints)
         \/ GoDiv(channelPoints, PointsPerUpgrade) <= 0
    THEN [ok |-> FALSE, char |-> c]
    ELSE [ok |-> TRUE,
          char |-> [c EXCEPT
              ![StatField(statType)] =
                  @ + GoDiv(channelPoints, PointsPerUpgrade),
              !.ChannelPointsSpent =
                  @ + GoDiv(channelPoints, PointsPerUpgrade) * PointsPerUpgrade]]

\* Character.UpgradeStat: the returned boolean and the character afterwards.
UpgradeStat(c, statType, channelPoints) ==
    IF ~CanUpgradeStat(statType, channelPoints)
    THEN [ok |-> FALSE, char |-> c]
    ELSE LET upgradeAmount == GoDiv(channelPoints, PointsPerUpgrade)
         IN  IF upgradeAmount <= 0
             THEN [ok |-> FALSE, char |-> c]
             ELSE [ok |-> TRUE,
                   char |-> [c EXCEPT
                       ![StatField(statType)] = @ + upgradeAmount,
                       !.ChannelPointsSpent = @ + channelPoints]]

GetNextLevelExperience(c) == c.Level * LevelExperience

\* A level-up that compares once instead of looping.
LevelUpOnce(c) ==
    IF c.Experience >= GetNextLevelExperience(c)
    THEN [c EXCEPT
             !.Experience = @ - GetNextLevelExperience(c),
             !.Level = @ + 1,
             !.Strength = @ + 1,
             !.Agility = @ + 1,
             !.Vitality = @ + 1,
             !.Intelligence = @ + 1]
    ELSE c

\* The level-up loop of Character.AddExperience.
RECURSIVE LevelUpLoop(_)
LevelUpLoop(c) ==
    IF c.Experience >= GetNextLevelExperience(c)
    THEN LevelUpLoop([c EXCEPT
             !.Experience = @ - GetNextLevelExperience(c),
             !.Level = @ + 1,
             !.Strength = @ + 1,
             !.Agility = @ + 1,
             !.Vitality = @ + 1,
             !.Intelligence = @ + 1])
    ELSE c

AddExperience(c, exp) == LevelUpLoop([c EXCEPT !.Experience = @ + exp])


(***************************************************************************)
(* The state: the process-wide backend switch, the in-memory backend's     *)
(* maps and counters, the relational tables, the requests in flight and    *)
(* what the last call returned.                                            *)
(***************************************************************************)
VARIABLES
    dbUp,               \* database.DB != nil, decided once at process start
    characters,         \* MemoryStorage.characters: id -> *Character
    nextCharacterID,    \* MemoryStorage.nextCharacterID
    combatLogs,         \* MemoryStorage.combatLogs
    nextCombatLogID,    \* MemoryStorage.nextCombatLogID
    dbCharacters,       \* table characters: id -> row
    dbNextCharacterID,  \* AUTO_INCREMENT of table characters
    dbCharacterItems,   \* table character_items: <<character, item>> -> quantity
    dbCombatLogs,       \* table combat_logs, in insertion order
    pending,            \* worker -> the CreateCharacter call it is inside
    ret                 \* the last call and what it returned

\* The merchant: the clock the end of an event is compared with, the
\* in-memory backend's merchant fields and inventories, and the two merchant
\* tables the services query.
VARIABLES
    now,                  \* time.Now() / NOW(), in minutes
    activeMerchant,       \* MemoryStorage.activeMerchant: *MerchantEvent
    merchants,            \* MemoryStorage.merchants: copies of the events
    nextMerchantID,       \* MemoryStorage.nextMerchantID
    inventories,          \* MemoryStorage.inventories: id -> items
    dbMerchantEvents,     \* table merchant_events, row i has id i
    dbMerchantEventItems  \* table merchant_event_items, row i has id i

\* The event log: the in-memory backend's slice and the table the event
\* service queries.
VARIABLES
    events,    \* MemoryStorage.events
    dbEvents   \* table events, row i has id i

logVars == <<events, dbEvents>>

shopVars == <<now, activeMerchant, merchants, nextMerchantID, inventories,
              dbMerchantEvents, dbMerchantEventItems>>

vars == <<dbUp, characters, nextCharacterID, combatLogs, nextCombatLogID,
          dbCharacters, dbNextCharacterID, dbCharacterItems, dbCombatLogs,
          pending, ret, shopVars, logVars>>

memVars == <<characters, nextCharacterID, combatLogs, nextCombatLogID>>
dbVars == <<dbCharacters, dbNextCharacterID, dbCharacterItems, dbCombatLogs>>

\* MemoryStorage.initializeSampleData: the sample event; the table is empty.
LogInit ==
    /\ events = <<[ID |-> 1, Type |-> "combat", IsTriggered |-> FALSE]>>
    /\ dbEvents = <<>>

\* A nil *MerchantEvent.
NoMerchant == [ID |-> 0]

\* NewMemoryStorage for the merchant fields, and the merchant tables empty.
ShopInit ==
    /\ now = 0
    /\ activeMerchant = NoMerchant
    /\ merchants = <<>>
    /\ nextMerchantID = 1
    /\ inventories = <<>>
    /\ dbMerchantEvents = <<>>
    /\ dbMerchantEventItems = <<>>

Workers == 1 .. NumWorkers
Idle == [op |-> "idle"]
\* What the last call returned: the operation, success, the error, and the id
\* of the character returned (created, or the winner of a duel).
Return(op, ok, err, id) == [op |-> op, ok |-> ok, err |-> err, id |-> id]

\* Inputs the requests are drawn from.
Usernames == {"alice", "bob"}
TwitchIDs == {NoTwitch, "tw1"}
CharacterArgs == {1, 2, 3}
ItemArgs == {1, 4}
StatArgs == {"strength", "agility", "vitality", "intelligence", "luck"}
PointArgs == {-100, 0, 50, 100, 250}
SlotArgs == {"boots", "cloak"}
\* rand.Float64() draws randomRoll = roll / RollScale from [0, 1).
RollScale == 100
Rolls == {0, RollScale \div 2, RollScale - 1}

(***************************************************************************)
(* storage/memory.go: the in-memory backend.                               *)
(***************************************************************************)
\* A record built without setting its level: Go's zero value.
NewCharacterZeroLevel(id, username, twitchUserID) ==
    [ID |-> id, Username |-> username, TwitchUserID |-> twitchUserID,
     Level |-> 0, Experience |-> 0, ChannelPointsSpent |-> 0,
     Strength |-> BaseStat, Agility |-> BaseStat,
     Vitality |-> BaseStat, Intelligence |-> BaseStat,
     BootsID |-> NoItem, PantsID |-> NoItem, ArmorID |-> NoItem,
     HelmetID |-> NoItem, RingID |-> NoItem, ChainID |-> NoItem,
     Equipment |-> NoEquipment, TotalStats |-> NoStats,
     CombatPower |-> 0]

\* The record MemoryStorage.CreateCharacter builds.
NewCharacter(id, username, twitchUserID) ==
    LET char == [ID |-> id, Username |-> username,
                 TwitchUserID |-> twitchUserID,
                 Level |-> 1, Experience |-> 0, ChannelPointsSpent |-> 0,
                 Strength |-> BaseStat, Agility |-> BaseStat,
                 Vitality |-> BaseStat, Intelligence |-> BaseStat,
                 BootsID |-> NoItem, PantsID |-> NoItem, ArmorID |-> NoItem,
                 HelmetID |-> NoItem, RingID |-> NoItem, ChainID |-> NoItem,
                 Equipment |-> NoEquipment, TotalStats |-> NoStats,
                 CombatPower |-> 0]
    IN  [char EXCEPT !.CombatPower = CalculateCombatPower(char)]

MemUsernameExists(username) ==
    \E id \in DOMAIN characters : characters[id].Username = username

MemCreateCharacter(username, twitchUserID) ==
    /\ ~dbUp
    /\ IF MemUsernameExists(username)
       THEN /\ ret' = Return("CreateCharacter", FALSE, "already exists", 0)
            /\ UNCHANGED memVars
       ELSE /\ characters' = (nextCharacterID :>
                   NewCharacter(nextCharacterID, username, twitchUserID))
                   @@ characters
            /\ nextCharacterID' = nextCharacterID + 1
            /\ ret' = Return("CreateCharacter", TRUE, "", nextCharacterID)
            /\ UNCHANGED <<combatLogs, nextCombatLogID>>
    /\ UNCHANGED <<dbUp, logVars, shopVars, dbVars, pending>>

\* MemoryStorage.GetCharacterByID: a copy with the combat power recomputed.
MemGetCharacterByID(id) ==
    IF id \in DOMAIN characters
    THEN [characters[id] EXCEPT
              !.CombatPower = CalculateCombatPower(characters[id])]
    ELSE NoChar

\* MemoryStorage.GetCharacterByUsername: the first match of the map's range.
MemGetCharacterByUsername(username) ==
    IF MemUsernameExists(username)
    THEN MemGetCharacterByID(
             CHOOSE id \in DOMAIN characters :
                 characters[id].Username = username)
    ELSE NoChar

\* MemoryStorage.UpdateCharacter: the map after the call, and whether it failed.
MemUpdateCharacter(chars, char) ==
    IF char.ID \notin DOMAIN chars
    THEN [err |-> TRUE, characters |-> chars]
    ELSE [err |-> FALSE, characters |-> [chars EXCEPT ![char.ID] = char]]

\* An entry stored as it is passed, with the ID its caller left in it.
MemCombatLogEntryUnnumbered(log) == log

\* MemoryStorage.AddCombatLog: the entry as stored.
MemCombatLogEntry(log) == [log EXCEPT !.ID = nextCombatLogID]

(***************************************************************************)
(* The relational backend: the tables of scripts/schema.sql as the         *)
(* services read and write them.                                           *)
(***************************************************************************)
DbUsernameExists(username) ==
    \E id \in DOMAIN dbCharacters : dbCharacters[id].Username = username

DbTwitchExists(twitchUserID) ==
    \E id \in DOMAIN dbCharacters :
        dbCharacters[id].TwitchUserID = twitchUserID

\* The row INSERT INTO characters writes.
NewRow(id, username, twitchUserID) ==
    [ID |-> id, Username |-> username, TwitchUserID |-> twitchUserID,
     Level |-> 1, Experience |-> 0, ChannelPointsSpent |-> 0,
     Strength |-> BaseStat, Agility |-> BaseStat,
     Vitality |-> BaseStat, Intelligence |-> BaseStat,
     BootsID |-> NoItem, PantsID |-> NoItem, ArmorID |-> NoItem,
     HelmetID |-> NoItem, RingID |-> NoItem, ChainID |-> NoItem]

\* CharacterService.loadCharacterEquipment: one lookup per populated slot.
LoadCharacterEquipment(row) ==
    [s \in Slots |->
        IF SlotOf(row, s) # NoItem THEN GetItemByID(SlotOf(row, s)) ELSE NoItem]

\* The character CharacterService.GetCharacterByID scans and completes.
LoadCharacter(row) ==
    LET character == [ID |-> row.ID, Username |-> row.Username,
                      TwitchUserID |-> row.TwitchUserID,
                      Level |-> row.Level, Experience |-> row.Experience,
                      ChannelPointsSpent |-> row.ChannelPointsSpent,
                      Strength |-> row.Strength, Agility |-> row.Agility,
                      Vitality |-> row.Vitality,
                      Intelligence |-> row.Intelligence,
                      BootsID |-> row.BootsID, PantsID |-> row.PantsID,
                      ArmorID |-> row.ArmorID, HelmetID |-> row.HelmetID,
                      RingID |-> row.RingID, ChainID |-> row.ChainID,
                      Equipment |-> LoadCharacterEquipment(row),
                      TotalStats |-> NoStats, CombatPower |-> 0]
    IN  [character EXCEPT
            !.TotalStats = CalculateTotalStats(character),
            !.CombatPower = CalculateCombatPower(character)]

\* CharacterService.GetCharacterByID: err for a nil database handle, else the
\* character or NoChar.
GetCharacterByID(id) ==
    IF ~dbUp
    THEN [err |-> TRUE, char |-> NoChar]
    ELSE IF id \in DOMAIN dbCharacters
         THEN [err |-> FALSE, char |-> LoadCharacter(dbCharacters[id])]
         ELSE [err |-> FALSE, char |-> NoChar]

GetCharacterByUsername(username) ==
    IF ~dbUp
    THEN [err |-> TRUE, char |-> NoChar]
    ELSE IF DbUsernameExists(username)
         THEN [err |-> FALSE,
               char |-> LoadCharacter(dbCharacters[
                   CHOOSE id \in DOMAIN dbCharacters :
                       dbCharacters[id].Username = username])]
         ELSE [err |-> FALSE, char |-> NoChar]

\* CharacterService.UpdateCharacter: UPDATE characters SET ... WHERE id = ?.
UpdateCharacter(rows, character) ==
    IF character.ID \in DOMAIN rows
    THEN [rows EXCEPT ![character.ID] =
             [@ EXCEPT !.Level = character.Level,
                       !.Experience = character.Experience,
                       !.ChannelPointsSpent = character.ChannelPointsSpent,
                       !.Strength = character.Strength,
                       !.Agility = character.Agility,
                       !.Vitality = character.Vitality,
                       !.Intelligence = character.Intelligence,
                       !.BootsID = character.BootsID,
                       !.PantsID = character.PantsID,
                       !.ArmorID = character.ArmorID,
                       !.HelmetID = character.HelmetID,
                       !.RingID = character.RingID,
                       !.ChainID = character.ChainID]]
    ELSE rows

(***************************************************************************)
(* services/character_service.go: the character service.                   *)
(***************************************************************************)
\* CreateCharacter up to its INSERT: the nil-handle check and the lookup of
\* the username; the INSERT is a second statement on the database.
CreateCharacter(w, username, twitchUserID) ==
    /\ pending[w] = Idle
    /\ IF ~dbUp
       THEN /\ ret' = Return("CreateCharacter", FALSE, "database connection not available", 0)
            /\ UNCHANGED pending
       ELSE IF GetCharacterByUsername(username).char # NoChar
       THEN /\ ret' = Return("CreateCharacter", FALSE, "already exists", 0)
            /\ UNCHANGED pending
       ELSE /\ pending' = [pending EXCEPT ![w] =
                   [op |-> "CreateCharacter", username |-> username,
                    twitchUserID |-> twitchUserID]]
            /\ ret' = Return("CreateCharacter", FALSE, "in progress", 0)
    /\ UNCHANGED <<dbUp, logVars, shopVars, memVars, dbVars>>

\* A characters table declared without its UNIQUE keys.
NoUniqueKeys(username, twitchUserID) == FALSE

\* Whether INSERT INTO characters breaks a UNIQUE key of the table.
InsertViolatesUnique(username, twitchUserID) ==
    \/ DbUsernameExists(username)
    \/ twitchUserID # NoTwitch /\ DbTwitchExists(twitchUserID)

\* The INSERT of CreateCharacter and the read-back of the new row.
CreateCharacterInsert(w) ==
    /\ pending[w].op = "CreateCharacter"
    /\ LET username == pending[w].username
           twitchUserID == pending[w].twitchUserID
       IN  IF InsertViolatesUnique(username, twitchUserID)
           THEN /\ ret' = Return("CreateCharacter", FALSE, "failed to create character", 0)
                \* whether a rejected INSERT consumes an AUTO_INCREMENT value
                \* depends on the storage engine
                /\ dbNextCharacterID' \in
                       {dbNextCharacterID, dbNextCharacterID + 1}
                /\ UNCHANGED <<dbCharacters, dbCharacterItems, dbCombatLogs>>
           ELSE /\ dbCharacters' = (dbNextCharacterID :>
                       NewRow(dbNextCharacterID, username, twitchUserID))
                       @@ dbCharacters
                /\ dbNextCharacterID' = dbNextCharacterID + 1
                /\ ret' = Return("CreateCharacter", TRUE, "", dbNextCharacterID)
                /\ UNCHANGED <<dbCharacterItems, dbCombatLogs>>
    /\ pending' = [pending EXCEPT ![w] = Idle]
    /\ UNCHANGED <<dbUp, logVars, shopVars, memVars>>

UpgradeCharacterStat(characterID, statType, channelPoints) ==
    LET got == GetCharacterByID(characterID)
        upgraded == UpgradeStat(got.char, statType, channelPoints)
        call == "UpgradeCharacterStat"
    IN  /\ IF got.err
           THEN /\ ret' = Return(call, FALSE, "database connection not available", 0)
                /\ UNCHANGED dbCharacters
           ELSE IF got.char = NoChar
           THEN /\ ret' = Return(call, FALSE, "character not found", 0)
                /\ UNCHANGED dbCharacters
           ELSE IF ~upgraded.ok
           THEN /\ ret' = Return(call, FALSE, "invalid stat upgrade parameters", 0)
                /\ UNCHANGED dbCharacters
           ELSE /\ dbCharacters' = UpdateCharacter(dbCharacters, upgraded.char)
                /\ ret' = Return(call, TRUE, "", 0)
        /\ UNCHANGED <<dbUp, logVars, shopVars, memVars, dbNextCharacterID, dbCharacterItems,
                       dbCombatLogs, pending>>

(***************************************************************************)
(* services/item_service.go: ownership and the inventory.                  *)
(***************************************************************************)
\* An ownership check that takes every item for owned, as the check does
\* with no database.
AssumeOwned(characterID, itemID) == TRUE

CharacterOwnsItem(characterID, itemID) ==
    IF ~dbUp
    THEN TRUE
    ELSE <<characterID, itemID>> \in DOMAIN dbCharacterItems

AddItemToCharacter(characterID, itemID, quantity) ==
    LET call == "AddItemToCharacter"
        key == <<characterID, itemID>>
    IN  /\ IF ~dbUp
           THEN /\ ret' = Return(call, FALSE, "database connection not available", 0)
                /\ UNCHANGED dbCharacterItems
           ELSE IF key \in DOMAIN dbCharacterItems
           THEN /\ dbCharacterItems' =
                       [dbCharacterItems EXCEPT ![key] = @ + quantity]
                /\ ret' = Return(call, TRUE, "", 0)
           ELSE IF characterID \in DOMAIN dbCharacters /\ itemID \in DOMAIN Items
           THEN /\ dbCharacterItems' = (key :> quantity) @@ dbCharacterItems
                /\ ret' = Return(call, TRUE, "", 0)
           ELSE \* a FOREIGN KEY of character_items rejects the row
                /\ ret' = Return(call, FALSE, "failed to add item to character", 0)
                /\ UNCHANGED dbCharacterItems
        /\ UNCHANGED <<dbUp, logVars, shopVars, memVars, dbCharacters, dbNextCharacterID,
                       dbCombatLogs, pending>>

EquipItem(characterID, itemID) ==
    LET item == GetItemByID(itemID)
        got == GetCharacterByID(characterID)
        call == "EquipItem"
    IN  /\ IF item = NoItem
           THEN /\ ret' = Return(call, FALSE, "item not found", 0)
                /\ UNCHANGED dbCharacters
           ELSE IF got.err
           THEN /\ ret' = Return(call, FALSE, "database connection not available", 0)
                /\ UNCHANGED dbCharacters
           ELSE IF got.char = NoChar
           THEN /\ ret' = Return(call, FALSE, "character not found", 0)
                /\ UNCHANGED dbCharacters
           ELSE IF ~CharacterOwnsItem(characterID, itemID)
           THEN /\ ret' = Return(call, FALSE, "character does not own this item", 0)
                /\ UNCHANGED dbCharacters
           ELSE IF Items[item].Type \notin Slots
           THEN /\ ret' = Return(call, FALSE, "invalid item type", 0)
                /\ UNCHANGED dbCharacters
           ELSE /\ dbCharacters' = UpdateCharacter(dbCharacters,
                       [got.char EXCEPT ![SlotField(Items[item].Type)] = itemID])
                /\ ret' = Return(call, TRUE, "", 0)
        /\ UNCHANGED <<dbUp, logVars, shopVars, memVars, dbNextCharacterID, dbCharacterItems,
                       dbCombatLogs, pending>>

UnequipItem(characterID, slotType) ==
    LET got == GetCharacterByID(characterID)
        call == "UnequipItem"
    IN  /\ IF got.err
           THEN /\ ret' = Return(call, FALSE, "database connection not available", 0)
                /\ UNCHANGED dbCharacters
           ELSE IF got.char = NoChar
           THEN /\ ret' = Return(call, FALSE, "character not found", 0)
                /\ UNCHANGED dbCharacters
           ELSE IF slotType \notin Slots
           THEN /\ ret' = Return(call, FALSE, "invalid slot type", 0)
                /\ UNCHANGED dbCharacters
           ELSE /\ dbCharacters' = UpdateCharacter(dbCharacters,
                       [got.char EXCEPT ![SlotField(slotType)] = NoItem])
                /\ ret' = Return(call, TRUE, "", 0)
        /\ UNCHANGED <<dbUp, logVars, shopVars, memVars, dbNextCharacterID, dbCharacterItems,
                       dbCombatLogs, pending>>

(***************************************************************************)
(* services/combat_service.go and services/combat_memory.go: a duel.       *)
(***************************************************************************)
\* if randomRoll > attackerChance the defender wins; randomRoll is
\* roll/RollScale and attackerChance is attackerPower/(attackerPower+defenderPower).
DefenderWins(attackerPower, defenderPower, roll) ==
    roll * (attackerPower + defenderPower) > attackerPower * RollScale

\* The reward of models.SimulateCombat, which no service calls, without its
\* bonus for the defender.
experienceGainedByMultiplier(loser) == loser.Level * BaseExperienceReward

experienceGained(loser) ==
    BaseExperienceReward + (loser.Level * ExperiencePerLoserLevel)

channelPointsReward(loser) ==
    BasePointsReward + (loser.Level * PointsPerLoserLevel)

expForNextLevel(winner) == winner.Level * CombatLevelExperience

\* "Check for level up": one comparison after the experience is added.
CheckLevelUp(winner) ==
    IF winner.Experience >= expForNextLevel(winner)
    THEN [winner EXCEPT !.Level = @ + 1,
                        !.Experience = @ - expForNextLevel(winner)]
    ELSE winner

\* A failure whose error is swallowed.
CombatNoError(err) == Return("StartCombat", TRUE, "", 0)

CombatFailure(err) == Return("StartCombat", FALSE, err, 0)

\* What the caller sees of the returned CombatResult: the winner and the
\* experience it was granted.
CombatResult(winner, gained) ==
    [op |-> "StartCombat", ok |-> TRUE, err |-> "", id |-> winner.ID,
     ExperienceGained |-> gained]

startCombatMemory(attackerID, defenderID, roll) ==
    LET attacker == MemGetCharacterByID(attackerID)
        defender == MemGetCharacterByID(defenderID)
        attackerPower == CalculateCombatPower(attacker)
        defenderPower == CalculateCombatPower(defender)
        defWins == DefenderWins(attackerPower, defenderPower, roll)
        winner == IF defWins THEN defender ELSE attacker
        loser == IF defWins THEN attacker ELSE defender
        updated == CheckLevelUp(
            [winner EXCEPT !.Experience = @ + experienceGained(loser)])
        combatLog == [ID |-> 0, AttackerID |-> attackerID,
                      DefenderID |-> defenderID, WinnerID |-> winner.ID,
                      AttackerPower |-> attackerPower,
                      DefenderPower |-> defenderPower]
    IN  /\ IF attacker = NoChar
           THEN /\ ret' = CombatFailure("attacker not found")
                /\ UNCHANGED memVars
           ELSE IF defender = NoChar
           THEN /\ ret' = CombatFailure("defender not found")
                /\ UNCHANGED memVars
           ELSE /\ characters' = MemUpdateCharacter(characters, updated).characters
                /\ combatLogs' = Append(combatLogs, MemCombatLogEntry(combatLog))
                /\ nextCombatLogID' = nextCombatLogID + 1
                /\ ret' = CombatResult(winner, experienceGained(loser))
                /\ UNCHANGED nextCharacterID
        /\ UNCHANGED <<dbUp, logVars, shopVars, dbVars, pending>>

\* CombatService.logCombat: the row INSERT INTO combat_logs writes.
logCombat(winner, loser, attackerPower, defenderPower) ==
    LET attackerID == winner.ID
        defenderID == loser.ID
    IN  [ID |-> Len(dbCombatLogs) + 1, AttackerID |-> attackerID,
         DefenderID |-> defenderID, WinnerID |-> winner.ID,
         AttackerPower |-> attackerPower,
         DefenderPower |-> defenderPower]

StartCombat(attackerID, defenderID, roll) ==
    IF ~dbUp
    THEN startCombatMemory(attackerID, defenderID, roll)
    ELSE
    LET attacker == GetCharacterByID(attackerID).char
        defender == GetCharacterByID(defenderID).char
        attackerPower == CalculateCombatPower(attacker)
        defenderPower == CalculateCombatPower(defender)
        defWins == DefenderWins(attackerPower, defenderPower, roll)
        winner == IF defWins THEN defender ELSE attacker
        loser == IF defWins THEN attacker ELSE defender
        updated == CheckLevelUp(
            [winner EXCEPT
                !.Experience = @ + experienceGained(loser),
                !.ChannelPointsSpent = @ - channelPointsReward(loser)])
    IN  /\ IF attacker = NoChar
           THEN /\ ret' = CombatFailure("attacker not found")
                /\ UNCHANGED dbVars
           ELSE IF defender = NoChar
           THEN /\ ret' = CombatFailure("defender not found")
                /\ UNCHANGED dbVars
           ELSE /\ dbCharacters' = UpdateCharacter(dbCharacters, updated)
                /\ dbCombatLogs' = Append(dbCombatLogs,
                       logCombat(winner, loser, attackerPower, defenderPower))
                /\ ret' = CombatResult(winner, experienceGained(loser))
                /\ UNCHANGED <<dbNextCharacterID, dbCharacterItems>>
        /\ UNCHANGED <<dbUp, logVars, shopVars, memVars, pending>>

(***************************************************************************)
(* The merchant: storage/memory.go and MerchantService of                  *)
(* services/event_service.go. The table merchant_event_items is not in     *)
(* scripts/schema.sql; it is the table the statements of MerchantService   *)
(* name, with the columns they name and an AUTO_INCREMENT id.              *)
(***************************************************************************)
\* price := item.Value * 2; stock := rand.Intn(3) + 1; the fixed price of the
\* in-memory backend; the margin of the "enough channel points" check.
PriceFactor == 2
StockChoices == 3
MemoryPrice == 100
PointsMargin == 1000

\* A clock tick.
Tick ==
    /\ now' = now + 1
    /\ UNCHANGED <<dbUp, logVars, memVars, dbVars, pending, ret, activeMerchant,
                   merchants, nextMerchantID, inventories, dbMerchantEvents,
                   dbMerchantEventItems>>

\* MemoryStorage.GetCurrentMerchant: the active event if its end is ahead;
\* a past-due one is dropped from activeMerchant.
MemGetCurrentMerchant ==
    LET live == activeMerchant # NoMerchant /\ activeMerchant.IsActive
        current == live /\ activeMerchant.EndTime > now
    IN  /\ activeMerchant' =
               IF live /\ ~current THEN NoMerchant ELSE activeMerchant
        /\ ret' = Return("GetCurrentEvent", TRUE, "",
                         IF current THEN activeMerchant.ID ELSE 0)
        /\ UNCHANGED <<now, merchants, nextMerchantID, inventories,
                       dbMerchantEvents, dbMerchantEventItems>>
        /\ UNCHANGED <<dbUp, logVars, memVars, dbVars, pending>>

\* MemoryStorage.CreateMerchant. "ms.activeMerchant.IsActive = false" writes
\* to the event activeMerchant points at, which the next assignment to
\* activeMerchant drops; merchants holds a copy of that event, made when it
\* was created, which the write does not reach.
MemCreateMerchant(durationMinutes) ==
    LET merchant == [ID |-> nextMerchantID, IsActive |-> TRUE,
                     EndTime |-> now + durationMinutes]
    IN  /\ activeMerchant' = merchant
        /\ merchants' = Append(merchants, merchant)
        /\ nextMerchantID' = nextMerchantID + 1
        /\ ret' = Return("CreateMerchantEvent", TRUE, "", merchant.ID)
        /\ UNCHANGED <<now, inventories, dbMerchantEvents,
                       dbMerchantEventItems>>
        /\ UNCHANGED <<dbUp, logVars, memVars, dbVars, pending>>

\* MemoryStorage.PurchaseItem: no line item, no stock; the price is added to
\* the points spent and a copy of the item is appended to the inventory.
MemPurchaseItem(characterID, itemID, price) ==
    LET call == "PurchaseItem"
    IN  /\ IF characterID \notin DOMAIN characters
           THEN /\ ret' = Return(call, FALSE, "character not found", 0)
                /\ UNCHANGED <<characters, inventories>>
           ELSE IF itemID \notin DOMAIN Items
           THEN /\ ret' = Return(call, FALSE, "item not found", 0)
                /\ UNCHANGED <<characters, inventories>>
           ELSE /\ characters' = [characters EXCEPT
                       ![characterID].ChannelPointsSpent = @ + price]
                /\ inventories' =
                       IF characterID \in DOMAIN inventories
                       THEN [inventories EXCEPT
                                ![characterID] = Append(@, itemID)]
                       ELSE (characterID :> <<itemID>>) @@ inventories
                /\ ret' = Return(call, TRUE, "", characterID)
        /\ UNCHANGED <<now, activeMerchant, merchants, nextMerchantID,
                       dbMerchantEvents, dbMerchantEventItems>>
        /\ UNCHANGED <<dbUp, logVars, nextCharacterID, combatLogs, nextCombatLogID,
                       dbVars, pending>>

\* MemoryStorage.GetCharacterInventory.
MemGetCharacterInventory(characterID) ==
    IF characterID \in DOMAIN inventories
    THEN inventories[characterID]
    ELSE <<>>

\* ItemService.GetRandomItems(3, true): the special items of the catalogue,
\* which has no more than three.
SpecialItems == {id \in DOMAIN Items : Items[id].IsSpecial}

Stocks == 1 .. StockChoices

\* The rows the loop of CreateMerchantEvent inserts into
\* merchant_event_items after the rows there are, one for each item.
RECURSIVE MerchantEventItemRows(_, _, _, _)
MerchantEventItemRows(rows, eventID, items, stock) ==
    IF items = {}
    THEN rows
    ELSE LET item == CHOOSE i \in items : \A j \in items : i <= j
         IN  MerchantEventItemRows(
                 Append(rows,
                        [ID |-> Len(rows) + 1, MerchantEventID |-> eventID,
                         ItemID |-> item,
                         Price |-> Items[item].Value * PriceFactor,
                         Stock |-> stock[item], Purchased |-> 0]),
                 eventID, items \ {item}, stock)

\* MerchantService.CreateMerchantEvent up to its INSERT: the UPDATE that
\* ends the active events is a statement of its own.
CreateMerchantEvent(w, durationMinutes) ==
    /\ pending[w] = Idle
    /\ IF ~dbUp
       THEN MemCreateMerchant(durationMinutes)
       ELSE /\ dbMerchantEvents' =
                   [i \in DOMAIN dbMerchantEvents |->
                       [dbMerchantEvents[i] EXCEPT !.IsActive = FALSE]]
            /\ pending' = [pending EXCEPT ![w] =
                   [op |-> "CreateMerchantEvent",
                    durationMinutes |-> durationMinutes]]
            /\ ret' = Return("CreateMerchantEvent", FALSE, "in progress", 0)
            /\ UNCHANGED <<now, activeMerchant, merchants, nextMerchantID,
                           inventories, dbMerchantEventItems>>
            /\ UNCHANGED <<dbUp, logVars, memVars, dbVars>>

\* The INSERT of the event, the INSERTs of its line items and the read back.
CreateMerchantEventInsert(w, stock) ==
    /\ pending[w].op = "CreateMerchantEvent"
    /\ LET eventID == Len(dbMerchantEvents) + 1
       IN  /\ dbMerchantEvents' = Append(dbMerchantEvents,
                  [ID |-> eventID, IsActive |-> TRUE,
                   EndTime |-> now + pending[w].durationMinutes])
           /\ dbMerchantEventItems' = MerchantEventItemRows(
                  dbMerchantEventItems, eventID, SpecialItems, stock)
           /\ ret' = Return("CreateMerchantEvent", TRUE, "", eventID)
    /\ pending' = [pending EXCEPT ![w] = Idle]
    /\ UNCHANGED <<now, activeMerchant, merchants, nextMerchantID,
                   inventories>>
    /\ UNCHANGED <<dbUp, logVars, memVars, dbVars>>

\* The rows SELECT ... WHERE is_active = true AND (end_time IS NULL OR
\* end_time > NOW()) matches.
CurrentEvents ==
    {i \in DOMAIN dbMerchantEvents :
        dbMerchantEvents[i].IsActive /\ dbMerchantEvents[i].EndTime > now}

\* MerchantService.GetCurrentEvent: ORDER BY start_time DESC LIMIT 1, the
\* latest of the matching rows, or none.
GetCurrentEvent ==
    IF ~dbUp
    THEN MemGetCurrentMerchant
    ELSE /\ ret' = Return("GetCurrentEvent", TRUE, "",
                IF CurrentEvents = {} THEN 0
                ELSE CHOOSE i \in CurrentEvents :
                         \A j \in CurrentEvents : j <= i)
         /\ UNCHANGED <<dbUp, logVars, memVars, dbVars, pending, shopVars>>

\* ItemService.AddItemToCharacter as PurchaseItem calls it: the rows of
\* character_items afterwards.
CharacterItemsWith(rows, characterID, itemID, quantity) ==
    IF <<characterID, itemID>> \in DOMAIN rows
    THEN [rows EXCEPT ![<<characterID, itemID>>] = @ + quantity]
    ELSE (<<characterID, itemID>> :> quantity) @@ rows

\* The statement of PurchaseItem the database fails, if any: the UPDATE of
\* the purchase count, the write of the inventory, or the UPDATE of the
\* buyer; a failed statement ends the call with an error.
PurchaseFailures == {"none", "purchased", "inventory", "character"}

\* MerchantService.PurchaseItem up to its first write: the line item, the
\* stock check, the buyer and the check of the points.
PurchaseItem(w, characterID, merchantEventItemID) ==
    LET call == "PurchaseItem"
        character == GetCharacterByID(characterID).char
    IN  /\ pending[w] = Idle
        /\ IF ~dbUp
           THEN MemPurchaseItem(characterID, merchantEventItemID, MemoryPrice)
           ELSE
           /\ IF merchantEventItemID \notin DOMAIN dbMerchantEventItems
              THEN /\ ret' = Return(call, FALSE,
                                    "failed to get merchant event item", 0)
                   /\ UNCHANGED pending
              ELSE LET line == dbMerchantEventItems[merchantEventItemID]
                   IN  IF line.Purchased >= line.Stock
                       THEN /\ ret' = Return(call, FALSE,
                                             "item is out of stock", 0)
                            /\ UNCHANGED pending
                       ELSE IF character = NoChar
                       THEN /\ ret' = Return(call, FALSE,
                                             "character not found", 0)
                            /\ UNCHANGED pending
                       ELSE IF character.ChannelPointsSpent + line.Price
                                 > character.ChannelPointsSpent + PointsMargin
                       THEN /\ ret' = Return(call, FALSE,
                                      "insufficient channel points", 0)
                            /\ UNCHANGED pending
                       ELSE /\ pending' = [pending EXCEPT ![w] =
                                   [op |-> call, character |-> character,
                                    merchantEventItemID |-> merchantEventItemID,
                                    itemID |-> line.ItemID,
                                    price |-> line.Price]]
                            /\ ret' = Return(call, FALSE, "in progress", 0)
           /\ UNCHANGED <<dbUp, logVars, memVars, dbVars, shopVars>>

\* The writes of PurchaseItem: the purchase count, the inventory, and the
\* buyer as loaded before the writes with the price added to its points.
PurchaseItemApply(w, failure) ==
    LET call == "PurchaseItem"
        p == pending[w]
        counted == failure # "purchased"
        added == counted /\ failure # "inventory"
        saved == added /\ failure # "character"
    IN  /\ pending[w].op = call
        /\ dbMerchantEventItems' =
               IF counted
               THEN [dbMerchantEventItems EXCEPT
                        ![p.merchantEventItemID].Purchased = @ + 1]
               ELSE dbMerchantEventItems
        /\ dbCharacterItems' =
               IF added
               THEN CharacterItemsWith(dbCharacterItems, p.character.ID,
                                       p.itemID, 1)
               ELSE dbCharacterItems
        /\ dbCharacters' =
               IF saved
               THEN UpdateCharacter(dbCharacters,
                        [p.character EXCEPT
                            !.ChannelPointsSpent = @ + p.price])
               ELSE dbCharacters
        /\ ret' = CASE failure = "purchased" ->
                         Return(call, FALSE,
                                "failed to update purchase count", 0)
                    [] failure = "inventory" ->
                         Return(call, FALSE,
                                "failed to add item to character", 0)
                    [] failure = "character" ->
                         Return(call, FALSE, "failed to update character", 0)
                    [] OTHER -> Return(call, TRUE, "", p.character.ID)
        /\ pending' = [pending EXCEPT ![w] = Idle]
        /\ UNCHANGED <<now, activeMerchant, merchants, nextMerchantID,
                       inventories, dbMerchantEvents>>
        /\ UNCHANGED <<dbUp, logVars, memVars, dbNextCharacterID, dbCombatLogs>>

(***************************************************************************)
(* The listing of all characters.                                          *)
(***************************************************************************)
\* The sequences that hold every element of the set once.
Orders(set) ==
    {order \in [1 .. Cardinality(set) -> set] :
        \A i, j \in DOMAIN order : order[i] = order[j] => i = j}

\* What a listing tells of one character: no equipment is loaded for it.
ListEntry(c) ==
    [ID |-> c.ID, Level |-> c.Level, Experience |-> c.Experience,
     CombatPower |-> CalculateCombatPower(
         [Level |-> c.Level, Strength |-> c.Strength, Agility |-> c.Agility,
          Vitality |-> c.Vitality, Intelligence |-> c.Intelligence,
          Equipment |-> NoEquipment])]

ListResult(rows, order) ==
    [op |-> "GetAllCharacters", ok |-> TRUE, err |-> "", id |-> 0,
     list |-> [n \in DOMAIN order |-> ListEntry(rows[order[n]])]]

\* MemoryStorage.GetAllCharacters: a range over the map, whose order of
\* iteration the language leaves open.
MemGetAllCharacters ==
    /\ ~dbUp
    /\ \E order \in Orders(DOMAIN characters) :
           ret' = ListResult(characters, order)
    /\ UNCHANGED <<dbUp, logVars, shopVars, memVars, dbVars, pending>>

\* ORDER BY level DESC, experience DESC: rows that tie come in any order.
OrderedByLevel(rows, order) ==
    \A i, j \in DOMAIN order :
        i < j =>
            \/ rows[order[i]].Level > rows[order[j]].Level
            \/ /\ rows[order[i]].Level = rows[order[j]].Level
               /\ rows[order[i]].Experience >= rows[order[j]].Experience

\* CharacterService.GetAllCharacters.
GetAllCharacters ==
    /\ IF ~dbUp
       THEN ret' = Return("GetAllCharacters", FALSE,
                          "database connection not available", 0)
       ELSE \E order \in Orders(DOMAIN dbCharacters) :
                /\ OrderedByLevel(dbCharacters, order)
                /\ ret' = ListResult(dbCharacters, order)
    /\ UNCHANGED <<dbUp, logVars, shopVars, memVars, dbVars, pending>>

(***************************************************************************)
(* services/event_service.go and storage/memory.go: the event log.         *)
(***************************************************************************)
EventTypes == {"combat", "merchant"}

\* EventService.CreateEvent: INSERT INTO events ... is_triggered false.
CreateEvent(eventType) ==
    /\ IF ~dbUp
       THEN /\ ret' = Return("CreateEvent", FALSE,
                             "database connection not available", 0)
            /\ UNCHANGED dbEvents
       ELSE /\ dbEvents' = Append(dbEvents,
                               [ID |-> Len(dbEvents) + 1, Type |-> eventType,
                                IsTriggered |-> FALSE])
            /\ ret' = Return("CreateEvent", TRUE, "", Len(dbEvents) + 1)
    /\ UNCHANGED <<dbUp, shopVars, memVars, dbVars, pending, events>>

\* MemoryStorage.MarkEventTriggered.
MemMarkEventTriggered(eventID) ==
    IF \E i \in DOMAIN events : events[i].ID = eventID
    THEN /\ events' = [i \in DOMAIN events |->
                          IF events[i].ID = eventID
                          THEN [events[i] EXCEPT !.IsTriggered = TRUE]
                          ELSE events[i]]
         /\ ret' = Return("MarkEventTriggered", TRUE, "", eventID)
    ELSE /\ ret' = Return("MarkEventTriggered", FALSE, "event not found", eventID)
         /\ UNCHANGED events

\* The rows an UPDATE events SET is_triggered = true WHERE id = ? changes:
\* the driver's RowsAffected counts the rows whose value changed, the
\* connection string asking for no other count.
RowsAffected(eventID) ==
    {i \in DOMAIN dbEvents :
        dbEvents[i].ID = eventID /\ ~dbEvents[i].IsTriggered}

\* EventService.MarkEventTriggered.
MarkEventTriggered(eventID) ==
    /\ IF ~dbUp
       THEN MemMarkEventTriggered(eventID) /\ UNCHANGED dbEvents
       ELSE /\ dbEvents' = [i \in DOMAIN dbEvents |->
                               IF dbEvents[i].ID = eventID
                               THEN [dbEvents[i] EXCEPT !.IsTriggered = TRUE]
                               ELSE dbEvents[i]]
            /\ ret' = IF RowsAffected(eventID) = {}
                      THEN Return("MarkEventTriggered", FALSE,
                                  "event not found", eventID)
                      ELSE Return("MarkEventTriggered", TRUE, "", eventID)
            /\ UNCHANGED events
    /\ UNCHANGED <<dbUp, shopVars, memVars, dbVars, pending>>

(***************************************************************************)
(* A caller of the in-memory backend: the reads it makes, the record it    *)
(* passes to UpdateCharacter, and its writes to what the last call handed  *)
(* it. ret names that call; the record or slice it returned is a pointer   *)
(* into the store or a copy, as the call made it.                          *)
(***************************************************************************)
\* The reads that return "result := *char": a copy of the struct, whose
\* pointer fields point where the stored ones do.
StructCopyReads ==
    {"GetCharacterByID", "GetCharacterByUsername", "GetAllCharacters"}

MemRead(call, characterID) ==
    /\ ~dbUp
    /\ ret' = Return(call, characterID \in DOMAIN characters, "", characterID)
    /\ UNCHANGED <<dbUp, logVars, shopVars, memVars, dbVars, pending>>

\* MemoryStorage.GetCharacterInventory returns the stored slice itself.
MemReadInventory(characterID) ==
    /\ ~dbUp
    /\ ret' = Return("GetCharacterInventory", TRUE, "", characterID)
    /\ UNCHANGED <<dbUp, logVars, shopVars, memVars, dbVars, pending>>

\* MemoryStorage.UpdateCharacter with the record a read returned: the map
\* keeps the pointer it is passed.
MemUpdateCharacterCall(characterID) ==
    /\ ~dbUp
    /\ IF characterID \in DOMAIN characters
       THEN /\ characters' = [characters EXCEPT
                   ![characterID] = MemGetCharacterByID(characterID)]
            /\ ret' = Return("UpdateCharacter", TRUE, "", characterID)
       ELSE /\ ret' = Return("UpdateCharacter", FALSE, "character not found", 0)
            /\ UNCHANGED characters
    /\ UNCHANGED <<dbUp, logVars, shopVars, nextCharacterID, combatLogs,
                   nextCombatLogID, dbVars, pending>>

MutatedValue == 0
MutatedString == "changed"

\* The caller sets the intelligence of the record to MutatedValue (the
\* record is the stored one after CreateCharacter and UpdateCharacter),
\* writes MutatedString through its TwitchUserID pointer (shared by the
\* struct copies too), clears IsActive of the event CreateMerchant returned
\* (the one activeMerchant points at) or overwrites the first element of the
\* inventory slice.
MutateReturned ==
    /\ ~dbUp
    /\ ret.ok
    /\ CASE ret.op \in {"CreateCharacter", "UpdateCharacter"} ->
              /\ characters' = [characters EXCEPT
                     ![ret.id].Intelligence = MutatedValue,
                     ![ret.id].TwitchUserID =
                         IF @ = NoTwitch THEN @ ELSE MutatedString]
              /\ UNCHANGED <<activeMerchant, inventories>>
         [] ret.op \in StructCopyReads ->
              /\ characters' = [characters EXCEPT
                     ![ret.id].TwitchUserID =
                         IF @ = NoTwitch THEN @ ELSE MutatedString]
              /\ UNCHANGED <<activeMerchant, inventories>>
         [] ret.op = "CreateMerchantEvent" ->
              /\ activeMerchant' = [activeMerchant EXCEPT !.IsActive = FALSE]
              /\ UNCHANGED <<characters, inventories>>
         [] ret.op = "GetCharacterInventory" ->
              /\ inventories' =
                     IF ret.id \in DOMAIN inventories
                     THEN [inventories EXCEPT ![ret.id][1] = MutatedValue]
                     ELSE inventories
              /\ UNCHANGED <<characters, activeMerchant>>
         [] OTHER -> FALSE
    /\ ret' = Return("Mutate", TRUE, "", ret.id)
    /\ UNCHANGED <<now, merchants, nextMerchantID, dbMerchantEvents,
                   dbMerchantEventItems>>
    /\ UNCHANGED <<dbUp, logVars, nextCharacterID, combatLogs, nextCombatLogID,
                   dbVars, pending>>

(***************************************************************************)
(* services/combat_memory.go, call by call: startCombatMemory takes the    *)
(* backend's lock four times, for the two reads, for UpdateCharacter and   *)
(* for AddCombatLog, and other requests run in between.                    *)
(***************************************************************************)
\* storage.Memory.GetCharacterByID(attackerID).
CombatLoadAttacker(w, attackerID, defenderID) ==
    /\ ~dbUp
    /\ pending[w] = Idle
    /\ IF MemGetCharacterByID(attackerID) = NoChar
       THEN /\ ret' = CombatFailure("attacker not found")
            /\ UNCHANGED pending
       ELSE /\ pending' = [pending EXCEPT ![w] =
                   [op |-> "StartCombat", step |-> "defender",
                    attackerID |-> attackerID, defenderID |-> defenderID,
                    attacker |-> MemGetCharacterByID(attackerID)]]
            /\ UNCHANGED ret
    /\ UNCHANGED <<dbUp, logVars, shopVars, memVars, dbVars>>

\* storage.Memory.GetCharacterByID(defenderID) and the draw.
CombatLoadDefender(w, roll) ==
    /\ pending[w].op = "StartCombat"
    /\ pending[w].step = "defender"
    /\ IF MemGetCharacterByID(pending[w].defenderID) = NoChar
       THEN /\ ret' = CombatFailure("defender not found")
            /\ pending' = [pending EXCEPT ![w] = Idle]
       ELSE /\ pending' = [pending EXCEPT ![w] =
                   [op |-> "StartCombat", step |-> "update",
                    attackerID |-> pending[w].attackerID,
                    defenderID |-> pending[w].defenderID,
                    attacker |-> pending[w].attacker,
                    defender |-> MemGetCharacterByID(pending[w].defenderID),
                    defenderWins |-> DefenderWins(
                        CalculateCombatPower(pending[w].attacker),
                        CalculateCombatPower(
                            MemGetCharacterByID(pending[w].defenderID)),
                        roll)]]
            /\ UNCHANGED ret
    /\ UNCHANGED <<dbUp, logVars, shopVars, memVars, dbVars>>

\* The stored record of the winner of a call in flight, as a read made now
\* returns it.
CombatWinnerReread(w) ==
    MemGetCharacterByID(
        IF pending[w].defenderWins
        THEN pending[w].defenderID ELSE pending[w].attackerID)

\* The record a call in flight took for its winner, as it read it, and for
\* its loser.
CombatWinner(w) ==
    IF pending[w].defenderWins THEN pending[w].defender ELSE pending[w].attacker

CombatLoser(w) ==
    IF pending[w].defenderWins THEN pending[w].attacker ELSE pending[w].defender

\* The winner after "winner.Experience += experienceGained" and the level
\* check.
CombatUpdated(w) ==
    CheckLevelUp([CombatWinner(w) EXCEPT
                     !.Experience = @ + experienceGained(CombatLoser(w))])

\* storage.Memory.UpdateCharacter(winner).
CombatUpdate(w) ==
    /\ pending[w].op = "StartCombat"
    /\ pending[w].step = "update"
    /\ characters' = MemUpdateCharacter(characters, CombatUpdated(w)).characters
    /\ pending' = [pending EXCEPT ![w].step = "log"]
    /\ UNCHANGED <<dbUp, logVars, shopVars, nextCharacterID, combatLogs,
                   nextCombatLogID, dbVars, ret>>

\* storage.Memory.AddCombatLog(combatLog) and the return.
CombatAddLog(w) ==
    /\ pending[w].op = "StartCombat"
    /\ pending[w].step = "log"
    /\ combatLogs' = Append(combatLogs, MemCombatLogEntry(
           [ID |-> 0, AttackerID |-> pending[w].attackerID,
            DefenderID |-> pending[w].defenderID,
            WinnerID |-> CombatWinner(w).ID,
            AttackerPower |-> CalculateCombatPower(pending[w].attacker),
            DefenderPower |-> CalculateCombatPower(pending[w].defender)]))
    /\ nextCombatLogID' = nextCombatLogID + 1
    /\ ret' = CombatResult(CombatWinner(w), experienceGained(CombatLoser(w)))
    /\ pending' = [pending EXCEPT ![w] = Idle]
    /\ UNCHANGED <<dbUp, logVars, shopVars, characters, nextCharacterID, dbVars>>

\* What startCombatMemory makes of two records it has read and a draw: the
\* winner it passes to UpdateCharacter and the entry it passes to
\* AddCombatLog.
MemoryDuel(attacker, defender, roll) ==
    LET attackerPower == CalculateCombatPower(attacker)
        defenderPower == CalculateCombatPower(defender)
        defWins == DefenderWins(attackerPower, defenderPower, roll)
        winner == IF defWins THEN defender ELSE attacker
        loser == IF defWins THEN attacker ELSE defender
    IN  [winner |-> CheckLevelUp(
                        [winner EXCEPT !.Experience = @ + experienceGained(loser)]),
         log |-> [AttackerID |-> attacker.ID, DefenderID |-> defender.ID,
                  WinnerID |-> winner.ID, AttackerPower |-> attackerPower,
                  DefenderPower |-> defenderPower]]

(***************************************************************************)
(* The program: both backends start empty of characters; the handle to the *)
(* database is set or left nil once, at start-up.                          *)
(***************************************************************************)
Init ==
    /\ dbUp \in BOOLEAN
    /\ characters = <<>>
    /\ nextCharacterID = 1
    /\ combatLogs = <<>>
    /\ nextCombatLogID = 1
    /\ dbCharacters = <<>>
    /\ dbNextCharacterID = 1
    /\ dbCharacterItems = <<>>
    /\ dbCombatLogs = <<>>
    /\ pending = [w \in Workers |-> Idle]
    /\ ret = Return("none", TRUE, "", 0)
    /\ ShopInit
    /\ LogInit

\* The part of the state space explored, with at most maxLog duels fought.
CappedAt(maxLog) ==
    /\ \A id \in DOMAIN characters :
           /\ characters[id].Level <= MaxLevel
           /\ characters[id].ChannelPointsSpent <= MaxSpent
    /\ \A id \in DOMAIN dbCharacters :
           /\ dbCharacters[id].Level <= MaxLevel
           /\ dbCharacters[id].ChannelPointsSpent <= MaxSpent
    /\ Len(combatLogs) <= maxLog
    /\ Len(dbCombatLogs) <= maxLog
    /\ dbNextCharacterID <= MaxCharacterID + 1
    /\ \A key \in DOMAIN dbCharacterItems :
           dbCharacterItems[key] <= MaxQuantity

Capped == CappedAt(MaxLog)

(***************************************************************************)
(* Spec: every operation, in either backend, with concurrent creations.    *)
(* The operations on one character are requested for the first character   *)
(* and for an id that names none.                                          *)
(***************************************************************************)
UpgradeRequests ==
    {<<1, "strength", 250>>, <<1, "strength", 50>>, <<1, "luck", 250>>,
     <<3, "strength", 250>>}
ItemRequests == {<<1, 1>>, <<1, 4>>, <<3, 1>>}
SlotRequests == {<<1, "boots">>, <<1, "cloak">>, <<3, "boots">>}
CombatRequests == {<<1, 1>>, <<1, 2>>, <<1, 3>>}

Next ==
    \/ \E username \in Usernames :
           MemCreateCharacter(username, NoTwitch) /\ Capped'
    \/ \E w \in Workers, username \in Usernames :
           CreateCharacter(w, username, NoTwitch) /\ Capped'
    \/ \E w \in Workers : CreateCharacterInsert(w) /\ Capped'
    \/ \E r \in UpgradeRequests :
           UpgradeCharacterStat(r[1], r[2], r[3]) /\ Capped'
    \/ \E r \in ItemRequests : AddItemToCharacter(r[1], r[2], 1) /\ Capped'
    \/ \E r \in ItemRequests : EquipItem(r[1], r[2]) /\ Capped'
    \/ \E r \in SlotRequests : UnequipItem(r[1], r[2]) /\ Capped'
    \/ \E r \in CombatRequests, roll \in {0, RollScale - 1} :
           StartCombat(r[1], r[2], roll) /\ Capped'

Spec == Init /\ [][Next]_vars

(***************************************************************************)
(* SpecCreate: creations only, with and without an external identity.      *)
(***************************************************************************)
NextCreate ==
    \/ \E username \in Usernames, twitchUserID \in TwitchIDs :
           MemCreateCharacter(username, twitchUserID) /\ Capped'
    \/ \E w \in Workers, username \in Usernames, twitchUserID \in TwitchIDs :
           CreateCharacter(w, username, twitchUserID) /\ Capped'
    \/ \E w \in Workers : CreateCharacterInsert(w) /\ Capped'

SpecCreate == Init /\ [][NextCreate]_vars

(***************************************************************************)
(* SpecUpgrade: one worker creates characters; the first acquires and      *)
(* equips an item and upgrades every kind of stat by every amount of       *)
(* points; upgrades are also requested for an id that names no character.  *)
(***************************************************************************)
NextUpgrade ==
    \/ MemCreateCharacter("alice", NoTwitch) /\ Capped'
    \/ \E username \in Usernames :
           CreateCharacter(1, username, NoTwitch) /\ Capped'
    \/ CreateCharacterInsert(1) /\ Capped'
    \/ \E id \in {1, 3}, statType \in StatArgs, channelPoints \in PointArgs :
           UpgradeCharacterStat(id, statType, channelPoints) /\ Capped'
    \/ AddItemToCharacter(1, 1, 1) /\ Capped'
    \/ EquipItem(1, 1) /\ Capped'

SpecUpgrade == Init /\ [][NextUpgrade]_vars

(***************************************************************************)
(* SpecCombat: one worker creates characters, which fight up to MaxDuels   *)
(* duels; the first may upgrade its strength.                              *)
(***************************************************************************)
NextCombat ==
    \/ \E username \in Usernames :
           MemCreateCharacter(username, NoTwitch) /\ CappedAt(MaxDuels)'
    \/ \E username \in Usernames :
           CreateCharacter(1, username, NoTwitch) /\ CappedAt(MaxDuels)'
    \/ CreateCharacterInsert(1) /\ CappedAt(MaxDuels)'
    \/ UpgradeCharacterStat(1, "strength", MaxSpent) /\ CappedAt(MaxDuels)'
    \/ \E attackerID \in CharacterArgs, defenderID \in CharacterArgs,
          roll \in Rolls :
           StartCombat(attackerID, defenderID, roll) /\ CappedAt(MaxDuels)'

SpecCombat == Init /\ [][NextCombat]_vars

(***************************************************************************)
(* SpecPure: Character.AddExperience applied to a character a caller       *)
(* holds, kept here as character 1 of the in-memory map.                   *)
(***************************************************************************)
PureExperience == {0, 400, 999}
PureAmounts == {0, 1, 600, 1000, 3000, 9000}

InitPure ==
    /\ dbUp = FALSE
    /\ \E level \in 1 .. MaxPureLevel, experience \in PureExperience :
           characters = (1 :> [NewCharacter(1, "alice", NoTwitch) EXCEPT
                                   !.Level = level,
                                   !.Experience = experience])
    /\ nextCharacterID = 2
    /\ combatLogs = <<>>
    /\ nextCombatLogID = 1
    /\ dbCharacters = <<>>
    /\ dbNextCharacterID = 1
    /\ dbCharacterItems = <<>>
    /\ dbCombatLogs = <<>>
    /\ pending = [w \in Workers |-> Idle]
    /\ ret = Return("none", TRUE, "", 0)
    /\ ShopInit
    /\ LogInit

\* c.AddExperience(exp): the character afterwards, and the boolean returned
\* (whether a level was gained).
ApplyAddExperience(exp) ==
    /\ characters[1].Level <= MaxPureLevel
    /\ characters' = [characters EXCEPT ![1] = AddExperience(@, exp)]
    /\ ret' = Return("AddExperience",
                     AddExperience(characters[1], exp).Level
                         > characters[1].Level, "", 1)
    /\ UNCHANGED <<dbUp, logVars, shopVars, nextCharacterID, combatLogs, nextCombatLogID,
                   dbVars, pending>>

NextPure == \E exp \in PureAmounts : ApplyAddExperience(exp)

SpecPure == InitPure /\ [][NextPure]_vars

(***************************************************************************)
(* SpecGrind: one of the schedules of the program. Two characters are      *)
(* created, once each; the first attacks the second and wins until it has  *)
(* reached GrindLevel, except that the second may win its first duel while *)
(* the first is at SparLevel, and any duel while it is at GrindLevel.      *)
(***************************************************************************)
\* The persisted characters of the backend in use.
Stored == IF dbUp THEN dbCharacters ELSE characters

GrindCapped ==
    /\ \A id \in DOMAIN Stored : Stored[id].Level <= GrindLevel
    /\ 2 \in DOMAIN Stored => Stored[2].Level <= MaxLevel
    /\ dbNextCharacterID <= MaxCharacterID + 1

NextGrind ==
    \/ \E username \in Usernames :
           /\ ~MemUsernameExists(username)
           /\ MemCreateCharacter(username, NoTwitch)
           /\ GrindCapped'
    \/ \E username \in Usernames :
           /\ dbUp /\ ~DbUsernameExists(username)
           /\ CreateCharacter(1, username, NoTwitch)
           /\ GrindCapped'
    \/ CreateCharacterInsert(1) /\ GrindCapped'
    \/ StartCombat(1, 2, 0) /\ GrindCapped'
    \/ /\ DOMAIN Stored = {1, 2}
       /\ \/ Stored[1].Level = SparLevel /\ Stored[2].Experience = 0
          \/ Stored[1].Level = GrindLevel
       /\ StartCombat(1, 2, RollScale - 1)
       /\ GrindCapped'

SpecGrind == Init /\ [][NextGrind]_vars

(***************************************************************************)
(* SpecMerchant: the clock and the merchant events of two concurrent       *)
(* requests.                                                               *)
(***************************************************************************)
Durations == {1, 2}

\* The part of the state space explored, with at most maxMerchants events
\* created in a backend.
ShopCappedAt(maxMerchants) ==
    /\ now <= MaxTime
    /\ Len(merchants) <= maxMerchants
    /\ Len(dbMerchantEvents) <= maxMerchants
    /\ \A id \in DOMAIN inventories : Len(inventories[id]) <= MaxPurchases

ShopCapped == ShopCappedAt(MaxMerchants)

NextMerchant ==
    \/ Tick /\ ShopCapped'
    \/ \E w \in Workers, durationMinutes \in Durations :
           CreateMerchantEvent(w, durationMinutes) /\ ShopCapped'
    \/ \E w \in Workers, stock \in [SpecialItems -> Stocks] :
           CreateMerchantEventInsert(w, stock) /\ ShopCapped'
    \/ GetCurrentEvent /\ ShopCapped'

SpecMerchant == Init /\ [][NextMerchant]_vars

(***************************************************************************)
(* SpecPurchase: one buyer, one merchant event, and the purchases of two   *)
(* concurrent requests.                                                    *)
(***************************************************************************)
BuyerArgs == {1, 2}
LineArgs == {1, 2}

NextPurchase ==
    \/ MemCreateCharacter("alice", NoTwitch) /\ ~dbUp /\ ShopCappedAt(1)'
    \/ CreateCharacter(1, "alice", NoTwitch) /\ dbUp /\ ShopCappedAt(1)'
    \/ CreateCharacterInsert(1) /\ ShopCappedAt(1)'
    \/ \E durationMinutes \in Durations :
           CreateMerchantEvent(1, durationMinutes) /\ ShopCappedAt(1)'
    \/ \E stock \in [SpecialItems -> Stocks] :
           CreateMerchantEventInsert(1, stock) /\ ShopCappedAt(1)'
    \/ \E w \in Workers, characterID \in BuyerArgs, line \in LineArgs :
           PurchaseItem(w, characterID, line) /\ ShopCappedAt(1)'
    \/ \E w \in Workers, failure \in PurchaseFailures :
           PurchaseItemApply(w, failure) /\ ShopCappedAt(1)'

SpecPurchase == Init /\ [][NextPurchase]_vars

(***************************************************************************)
(* SpecEquip: one character, its inventory, its equipment and its          *)
(* strength.                                                               *)
(***************************************************************************)
EquipCharacterArgs == {1, 3}
EquipItemArgs == {1, 2, 3, 4}
EquipSlotArgs == {"boots", "pants", "ring", "cloak"}

NextEquip ==
    \/ MemCreateCharacter("alice", NoTwitch) /\ ~dbUp /\ Capped'
    \/ CreateCharacter(1, "alice", NoTwitch) /\ Capped'
    \/ CreateCharacterInsert(1) /\ Capped'
    \/ UpgradeCharacterStat(1, "strength", PointsPerUpgrade) /\ Capped'
    \/ \E itemID \in EquipItemArgs :
           AddItemToCharacter(1, itemID, 1) /\ Capped'
    \/ \E characterID \in EquipCharacterArgs, itemID \in EquipItemArgs :
           EquipItem(characterID, itemID) /\ Capped'
    \/ \E characterID \in EquipCharacterArgs, slotType \in EquipSlotArgs :
           UnequipItem(characterID, slotType) /\ Capped'

SpecEquip == Init /\ [][NextEquip]_vars

(***************************************************************************)
(* SpecList: two characters, their duels, and the listings.                *)
(***************************************************************************)
NextList ==
    \/ \E username \in Usernames :
           MemCreateCharacter(username, NoTwitch) /\ ~dbUp
             /\ CappedAt(MaxDuels)'
    \/ \E username \in Usernames :
           CreateCharacter(1, username, NoTwitch) /\ dbUp
             /\ CappedAt(MaxDuels)'
    \/ CreateCharacterInsert(1) /\ CappedAt(MaxDuels)'
    \/ \E attackerID \in {1, 2}, defenderID \in {1, 2}, roll \in Rolls :
           StartCombat(attackerID, defenderID, roll) /\ CappedAt(MaxDuels)'
    \/ MemGetAllCharacters /\ CappedAt(MaxDuels)'
    \/ GetAllCharacters /\ CappedAt(MaxDuels)'

SpecList == Init /\ [][NextList]_vars

(***************************************************************************)
(* SpecLog: the event log, with up to MaxEvents events created.            *)
(***************************************************************************)
EventArgs == 1 .. MaxEvents + 1

LogCapped == Len(dbEvents) <= MaxEvents

NextLog ==
    \/ \E eventType \in EventTypes : CreateEvent(eventType) /\ LogCapped'
    \/ \E eventID \in EventArgs : MarkEventTriggered(eventID) /\ LogCapped'

SpecLog == Init /\ [][NextLog]_vars

(***************************************************************************)
(* SpecAlias: a caller of the in-memory backend that writes to what it was *)
(* handed.                                                                 *)
(***************************************************************************)
NextAlias ==
    \/ \E twitchUserID \in TwitchIDs :
           MemCreateCharacter("alice", twitchUserID) /\ ShopCappedAt(1)'
    \/ \E call \in StructCopyReads : MemRead(call, 1) /\ ShopCappedAt(1)'
    \/ MemReadInventory(1) /\ ShopCappedAt(1)'
    \/ MemUpdateCharacterCall(1) /\ ShopCappedAt(1)'
    \/ \E itemID \in DOMAIN Items :
           MemPurchaseItem(1, itemID, MemoryPrice) /\ ShopCappedAt(1)'
    \/ \E durationMinutes \in Durations :
           /\ ~dbUp
           /\ MemCreateMerchant(durationMinutes) /\ UNCHANGED pending
           /\ ShopCappedAt(1)'
    \/ MutateReturned /\ ShopCappedAt(1)'

SpecAlias == Init /\ [][NextAlias]_vars

(***************************************************************************)
(* SpecIds: the creations of the in-memory backend: characters, combat-log *)
(* entries and merchant events.                                            *)
(***************************************************************************)
IdsCapped == CappedAt(MaxDuels) /\ ShopCapped

NextIds ==
    \/ \E username \in Usernames :
           MemCreateCharacter(username, NoTwitch) /\ IdsCapped'
    \/ \E attackerID \in CharacterArgs, defenderID \in CharacterArgs :
           ~dbUp /\ StartCombat(attackerID, defenderID, 0) /\ IdsCapped'
    \/ \E durationMinutes \in Durations :
           ~dbUp /\ CreateMerchantEvent(1, durationMinutes) /\ IdsCapped'

SpecIds == Init /\ [][NextIds]_vars

(***************************************************************************)
(* SpecRace: two characters of the in-memory backend and the duels of two  *)
(* concurrent requests.                                                    *)
(***************************************************************************)
\* The part of the state space explored: MaxDuels duels, fought or in flight.
RaceCapped ==
    /\ CappedAt(MaxDuels)
    /\ Len(combatLogs) + Cardinality({w \in Workers : pending[w] # Idle})
           <= MaxDuels

NextRace ==
    \/ \E username \in Usernames :
           /\ ~MemUsernameExists(username)
           /\ MemCreateCharacter(username, NoTwitch)
           /\ RaceCapped'
    \/ \E w \in Workers, attackerID \in CharacterArgs,
          defenderID \in CharacterArgs :
           CombatLoadAttacker(w, attackerID, defenderID) /\ RaceCapped'
    \/ \E w \in Workers, roll \in {0, RollScale - 1} :
           CombatLoadDefender(w, roll) /\ RaceCapped'
    \/ \E w \in Workers : CombatUpdate(w) /\ RaceCapped'
    \/ \E w \in Workers : CombatAddLog(w) /\ RaceCapped'

SpecRace == Init /\ [][NextRace]_vars

(***************************************************************************)
(* SpecProgress: one character whose strength is upgraded while the        *)
(* purchases of two concurrent requests are in flight.                     *)
(***************************************************************************)
ProgressCapped ==
    /\ ShopCappedAt(1)
    /\ \A id \in DOMAIN dbCharacters :
           dbCharacters[id].Strength <= BaseStat + MaxUpgrades

NextProgress ==
    \/ MemCreateCharacter("alice", NoTwitch) /\ ProgressCapped'
    \/ CreateCharacter(1, "alice", NoTwitch) /\ dbUp /\ ProgressCapped'
    \/ CreateCharacterInsert(1) /\ ProgressCapped'
    \/ CreateMerchantEvent(1, MaxTime) /\ ProgressCapped'
    \/ \E stock \in [SpecialItems -> Stocks] :
           CreateMerchantEventInsert(1, stock) /\ ProgressCapped'
    \/ \E w \in Workers : PurchaseItem(w, 1, 1) /\ ProgressCapped'
    \/ \E w \in Workers : PurchaseItemApply(w, "none") /\ ProgressCapped'
    \/ UpgradeCharacterStat(1, "strength", PointsPerUpgrade) /\ ProgressCapped'

SpecProgress == Init /\ [][NextProgress]_vars

(***************************************************************************)
(* The properties.                                                         *)
(***************************************************************************)
UniqueUsernames ==
    /\ \A i, j \in DOMAIN characters :
           characters[i].Username = characters[j].Username => i = j
    /\ \A i, j \in DOMAIN dbCharacters :
           dbCharacters[i].Username = dbCharacters[j].Username => i = j

DuplicateCreateRejected ==
    ret'.op = "CreateCharacter" =>
    /\ \A username \in Usernames, twitchUserID \in TwitchIDs :
           MemCreateCharacter(username, twitchUserID)
             /\ MemUsernameExists(username)
           => /\ ~ret'.ok
              /\ UNCHANGED <<characters, nextCharacterID>>
    /\ \A w \in Workers, username \in Usernames, twitchUserID \in TwitchIDs :
           CreateCharacter(w, username, twitchUserID)
             /\ dbUp /\ DbUsernameExists(username)
           => /\ ~ret'.ok /\ ret'.err = "already exists"
              /\ pending'[w] = Idle
              /\ UNCHANGED <<dbCharacters, dbNextCharacterID>>
    /\ \A w \in Workers :
           CreateCharacterInsert(w) /\ DbUsernameExists(pending[w].username)
           => /\ ~ret'.ok
              /\ UNCHANGED dbCharacters

\* C1: in every reachable state no two stored characters share a username,
\* in either backend and under any interleaving of the creations with each
\* other and with every other operation; a create call that finds its
\* username taken returns an error and leaves the store and the id counter
\* unchanged, and an INSERT that loses the race for a username is rejected
\* and leaves the table unchanged.
C1_UniqueUsername == []UniqueUsernames /\ [][DuplicateCreateRejected]_vars

\* Two creations of one username raced and the INSERT of the later one was
\* rejected by the table.
C1_Witness ==
    /\ ret = Return("CreateCharacter", FALSE, "failed to create character", 0)
    /\ DOMAIN dbCharacters # {}

\* The core fields of a character as it is created.
CoreDefaults(c, id, username, twitchUserID) ==
    /\ c # NoChar
    /\ c.ID = id /\ c.Username = username /\ c.TwitchUserID = twitchUserID
    /\ c.Level = 1 /\ c.Experience = 0 /\ c.ChannelPointsSpent = 0
    /\ c.Strength = 10 /\ c.Agility = 10
    /\ c.Vitality = 10 /\ c.Intelligence = 10
    /\ \A slot \in Slots : SlotOf(c, slot) = NoItem

CreateRoundTrip ==
    ret'.op = "CreateCharacter" =>
    /\ \A username \in Usernames, twitchUserID \in TwitchIDs :
           MemCreateCharacter(username, twitchUserID)
             /\ ~MemUsernameExists(username)
           => /\ ret'.ok
              /\ CoreDefaults(MemGetCharacterByID(ret.id)', ret'.id,
                              username, twitchUserID)
              /\ CoreDefaults(MemGetCharacterByUsername(username)', ret'.id,
                              username, twitchUserID)
    /\ \A w \in Workers, username \in Usernames, twitchUserID \in TwitchIDs :
           CreateCharacter(w, username, twitchUserID)
             /\ dbUp /\ ~DbUsernameExists(username)
           => pending'[w] = [op |-> "CreateCharacter", username |-> username,
                             twitchUserID |-> twitchUserID]
    /\ \A w \in Workers, username \in Usernames, twitchUserID \in TwitchIDs :
           /\ CreateCharacterInsert(w)
           /\ pending[w].username = username
           /\ pending[w].twitchUserID = twitchUserID
           /\ ~DbUsernameExists(username)
           /\ twitchUserID = NoTwitch \/ ~DbTwitchExists(twitchUserID)
           => /\ ret'.ok
              /\ ~GetCharacterByID(ret.id)'.err
              /\ CoreDefaults(GetCharacterByID(ret.id)'.char, ret'.id,
                              username, twitchUserID)
              /\ ~GetCharacterByUsername(username)'.err
              /\ CoreDefaults(GetCharacterByUsername(username)'.char,
                              ret'.id, username, twitchUserID)

UpgradeApplied ==
    ret'.op = "UpgradeCharacterStat" =>
    \A id \in DOMAIN dbCharacters,
       statType \in {"strength", "agility", "vitality", "intelligence"},
       channelPoints \in PointArgs :
        channelPoints >= 100
        => \/ /\ ret'.ok
              /\ dbCharacters' = [dbCharacters EXCEPT ![id] = [@ EXCEPT
                     ![StatField(statType)] = @ + (channelPoints \div 100),
                     !.ChannelPointsSpent = @ + channelPoints]]
              /\ UNCHANGED <<characters, dbCharacterItems>>
           \/ ~UpgradeCharacterStat(id, statType, channelPoints)

\* C3: for every character of the relational store, every kind of stat and
\* every amount of points >= 100, upgradeStat succeeds, adds floor(points/100)
\* to exactly the named base stat and the full amount to the spent-points
\* counter, and leaves level, experience, the other three stats and the six
\* equipment slots as they were.
C3_UpgradeApplied == [][UpgradeApplied]_vars

\* A character wearing boots has spent 250 points on two points of strength.
C3_Witness ==
    /\ ret = Return("UpgradeCharacterStat", TRUE, "", 0)
    /\ 1 \in DOMAIN dbCharacters
    /\ dbCharacters[1].Strength = 12
    /\ dbCharacters[1].ChannelPointsSpent = 250
    /\ dbCharacters[1].BootsID = 1

UpgradeRejected ==
    ret'.op = "UpgradeCharacterStat" =>
    \A id \in CharacterArgs, statType \in StatArgs,
       channelPoints \in PointArgs :
        \/ channelPoints < 100
        \/ statType \notin {"strength", "agility", "vitality", "intelligence"}
        \/ id \notin DOMAIN dbCharacters
        => \/ /\ ~ret'.ok
              /\ UNCHANGED <<characters, dbCharacters>>
           \/ ~UpgradeCharacterStat(id, statType, channelPoints)

\* C4: upgradeStat with fewer than 100 points (zero and negative amounts
\* included), with an unrecognised kind of stat, or for an id that names no
\* character reports failure and changes no field of any stored character.
C4_UpgradeRejected == [][UpgradeRejected]_vars

\* An upgrade was refused for its parameters after an earlier one succeeded.
C4_Witness ==
    /\ ret = Return("UpgradeCharacterStat", FALSE,
                    "invalid stat upgrade parameters", 0)
    /\ 1 \in DOMAIN dbCharacters
    /\ dbCharacters[1].Strength = 11

\* The experience the thresholds of the levels from .. to - 1 add up to.
RECURSIVE ThresholdsConsumed(_, _)
ThresholdsConsumed(from, to) ==
    IF from >= to THEN 0
    ELSE (from * 1000) + ThresholdsConsumed(from + 1, to)

AddExperienceLoops ==
    ret'.op = "AddExperience" =>
    \A exp \in PureAmounts :
        ApplyAddExperience(exp) /\ exp >= 0
        => LET c == characters[1]
               d == characters'[1]
               gained == d.Level - c.Level
           IN  /\ d.Experience >= 0
               /\ d.Experience < d.Level * 1000
               /\ gained >= 0
               /\ c.Experience + exp
                    = d.Experience + ThresholdsConsumed(c.Level, d.Level)
               /\ d = [c EXCEPT !.Level = @ + gained,
                                !.Experience = d.Experience,
                                !.Strength = @ + gained,
                                !.Agility = @ + gained,
                                !.Vitality = @ + gained,
                                !.Intelligence = @ + gained]
               /\ ret'.ok = (gained > 0)
               /\ (c.Level = 1 /\ c.Experience = 0 /\ exp = 1000 + 2000)
                  => /\ d.Level = 3
                     /\ d.Strength = c.Strength + 2
                     /\ d.Agility = c.Agility + 2
                     /\ d.Vitality = c.Vitality + 2
                     /\ d.Intelligence = c.Intelligence + 2

\* C5: addExperience with an amount >= 0 loops: it ends with experience below
\* level*1000 for the level reached, the level rises by exactly the number of
\* thresholds (level*1000 at each level passed) the experience pays for, and
\* each of the four base stats rises by the number of levels gained; 1000 +
\* 2000 experience granted at level 1 with no experience give level 3 and +2
\* on every base stat in one call.
C5_AddExperienceLoops == [][AddExperienceLoops]_vars

\* One call has taken a character from level 1 to level 3.
C5_Witness ==
    /\ ret = Return("AddExperience", TRUE, "", 1)
    /\ characters[1].Level = 3
    /\ characters[1].Experience = 0
    /\ characters[1].Strength = 12

\* C6: every persisted character has level >= 1, experience >= 0 and
\* experience below the experience its level requires for the next one: below
\* level*100, the threshold of the combat flow, and so below level*1000, that
\* of requiredExperienceForNextLevel.
C6_ExperienceBelowThreshold ==
    \A id \in DOMAIN Stored :
        /\ Stored[id].Level >= 1
        /\ Stored[id].Experience >= 0
        /\ Stored[id].Experience < Stored[id].Level * 100
        /\ Stored[id].Experience < Stored[id].Level * 1000

\* The combat log of the backend in use.
StoredLog == IF dbUp THEN dbCombatLogs ELSE combatLogs

\* The character a duel loads, as the backend in use returns it.
Loaded(id) ==
    IF dbUp THEN GetCharacterByID(id).char ELSE MemGetCharacterByID(id)

\* The level, experience and base stats of a character.
Progress(c) ==
    <<c.Level, c.Experience, c.Strength, c.Agility, c.Vitality,
      c.Intelligence>>

CombatUsesAddExperience ==
    ret'.op = "StartCombat" /\ ret'.ok =>
    \A attackerID \in CharacterArgs, defenderID \in CharacterArgs,
       roll \in Rolls :
        attackerID \in DOMAIN Stored /\ defenderID \in DOMAIN Stored =>
        LET winner == ret'.id
            loser == IF winner = attackerID THEN defenderID ELSE attackerID
        IN  \/ Progress(Stored'[winner])
                 = Progress(AddExperience(Stored[winner],
                                          50 + (10 * Stored[loser].Level)))
            \/ ~StartCombat(attackerID, defenderID, roll)

\* C7: a successful combat applies the experience grant to the winner as
\* addExperience does: the winner's persisted level, experience and four base
\* stats after the duel are those of addExperience(winner before, experience
\* gained), with its loop, its threshold of level*1000 and its +1 on every
\* base stat per level gained.
C7_CombatUsesAddExperience == [][CombatUsesAddExperience]_vars

CombatFrame ==
    ret'.op = "StartCombat" /\ ret'.ok =>
    \A attackerID \in CharacterArgs, defenderID \in CharacterArgs,
       roll \in Rolls :
        attackerID \in DOMAIN Stored /\ defenderID \in DOMAIN Stored =>
        LET winner == ret'.id
            loser == IF winner = attackerID THEN defenderID ELSE attackerID
        IN  \/ /\ Stored'[loser] = Stored[loser]
               /\ \A id \in DOMAIN Stored :
                      id \notin {attackerID, defenderID}
                      => Stored'[id] = Stored[id]
               /\ DOMAIN Stored' = DOMAIN Stored
               /\ Len(StoredLog') = Len(StoredLog) + 1
               /\ UNCHANGED <<nextCharacterID, dbNextCharacterID,
                              dbCharacterItems, pending>>
            \/ ~StartCombat(attackerID, defenderID, roll)

\* C8: a successful combat between two existing ids, attackerID = defenderID
\* included, leaves the loser's persisted record as it was; only the winner's
\* record and one appended log entry change, and every character that is
\* neither attacker nor defender is unchanged.
C8_CombatFrame == [][CombatFrame]_vars

CombatMissingRejected ==
    ret'.op = "StartCombat" =>
    \A attackerID \in CharacterArgs, defenderID \in CharacterArgs,
       roll \in Rolls :
        attackerID \notin DOMAIN Stored \/ defenderID \notin DOMAIN Stored
        => \/ /\ ~ret'.ok
              /\ UNCHANGED <<characters, dbCharacters, combatLogs,
                             dbCombatLogs, nextCombatLogID>>
           \/ ~StartCombat(attackerID, defenderID, roll)

\* C9: if the attacker id or the defender id names no existing character,
\* StartCombat returns an error, changes no character record and leaves the
\* combat log with the entries it had.
C9_CombatMissingRejected == [][CombatMissingRejected]_vars

\* A duel was refused for its missing defender after an earlier duel was
\* fought and logged.
C9_Witness ==
    /\ ret = Return("StartCombat", FALSE, "defender not found", 0)
    /\ Len(StoredLog) > 0

CombatLogged ==
    ret'.op = "StartCombat" /\ ret'.ok =>
    \A attackerID \in CharacterArgs, defenderID \in CharacterArgs,
       roll \in Rolls :
        attackerID \in DOMAIN Stored /\ defenderID \in DOMAIN Stored =>
        \/ /\ Len(StoredLog') = Len(StoredLog) + 1
           /\ SubSeq(StoredLog', 1, Len(StoredLog)) = StoredLog
           /\ LET entry == StoredLog'[Len(StoredLog')]
              IN  /\ entry.AttackerID = attackerID
                  /\ entry.DefenderID = defenderID
                  /\ entry.WinnerID \in {attackerID, defenderID}
                  /\ entry.WinnerID = ret'.id
                  /\ entry.AttackerPower
                       = CalculateCombatPower(Loaded(attackerID))
                  /\ entry.DefenderPower
                       = CalculateCombatPower(Loaded(defenderID))
        \/ ~StartCombat(attackerID, defenderID, roll)

\* C10: every successful StartCombat(attackerID, defenderID) appends exactly
\* one entry to the combat log, in both backends, whose attacker id is
\* attackerID, whose defender id is defenderID, whose winner id is one of the
\* two and the returned winner, and whose power values are the attacker's and
\* the defender's combat power computed before the outcome was applied; the
\* entries already logged are neither modified nor removed.
C10_CombatLogged == [][CombatLogged]_vars

\* C11: in every successful combat, in both backends and whichever side wins,
\* the experience-gained field of the result is 50 + 10 * the level the loser
\* had when the call was made, and that amount is what is added to the
\* winner's experience (before the level-up check takes its threshold off).
ExperienceGrant ==
    ret'.op = "StartCombat" /\ ret'.ok =>
    \A attackerID \in CharacterArgs, defenderID \in CharacterArgs,
       roll \in Rolls :
        attackerID \in DOMAIN Stored /\ defenderID \in DOMAIN Stored =>
        LET attacker == Loaded(attackerID)
            defender == Loaded(defenderID)
            defWins == DefenderWins(CalculateCombatPower(attacker),
                                    CalculateCombatPower(defender), roll)
            winner == IF defWins THEN defender ELSE attacker
            loser == IF defWins THEN attacker ELSE defender
            grant == 50 + 10 * loser.Level
            after == Stored'[winner.ID]
        IN  \/ /\ ret'.ExperienceGained = grant
               /\ ret'.id = winner.ID
               /\ after.Experience
                    + (IF after.Level = winner.Level THEN 0
                       ELSE expForNextLevel(winner))
                    = winner.Experience + grant
            \/ ~StartCombat(attackerID, defenderID, roll)

C11_ExperienceGrant == [][ExperienceGrant]_vars

\* In the in-memory backend the defender of the latest duel won it and was
\* granted the reward for a loser of level 1.
C11_Witness ==
    /\ ~dbUp
    /\ ret.op = "StartCombat" /\ ret.ok
    /\ ret.ExperienceGained = 60
    /\ Len(combatLogs) > 0
    /\ combatLogs[Len(combatLogs)].WinnerID
         = combatLogs[Len(combatLogs)].DefenderID
    /\ combatLogs[Len(combatLogs)].AttackerID
         # combatLogs[Len(combatLogs)].DefenderID

\* The ids of the stored merchant event records whose active flag is set, in
\* the backend in use: the rows of merchant_events, or the event
\* activeMerchant points at and the copies in merchants.
ActiveEvents ==
    IF dbUp
    THEN {i \in DOMAIN dbMerchantEvents : dbMerchantEvents[i].IsActive}
    ELSE {merchants[i].ID : i \in {j \in DOMAIN merchants :
                                       merchants[j].IsActive}}
         \cup (IF activeMerchant # NoMerchant /\ activeMerchant.IsActive
               THEN {activeMerchant.ID} ELSE {})

CreateLeavesOneActive ==
    ret'.op = "CreateMerchantEvent" /\ ret'.ok => ActiveEvents' = {ret'.id}

\* C12: in every reachable state at most one merchant event record has its
\* active flag set, and when createMerchantEvent returns, the new event is
\* the one stored event that is active: every event created before it, the
\* copies in the event history included, is inactive.
C12_OneActiveMerchant ==
    [](Cardinality(ActiveEvents) <= 1) /\ [][CreateLeavesOneActive]_vars

\* The stored merchant event records of the backend in use.
StoredEvents == IF dbUp THEN dbMerchantEvents ELSE merchants

ExpiresOnRead ==
    ret'.op = "GetCurrentEvent" =>
    \/ ~GetCurrentEvent
    \/ /\ ret'.id # 0 =>
              /\ ret'.id \in DOMAIN StoredEvents
              /\ StoredEvents[ret'.id].IsActive
              /\ StoredEvents[ret'.id].EndTime > now
       /\ (/\ ActiveEvents # {}
           /\ \A id \in ActiveEvents : StoredEvents[id].EndTime <= now)
          => ret'.id = 0 /\ ActiveEvents' = {}
       /\ ret.op = "GetCurrentEvent" /\ ret.id = 0 => ret'.id = 0

\* C13: getCurrentEvent returns an event only if it is active and its end
\* time is strictly ahead; when the end time of the active event has passed,
\* the read returns none and expires the event, so that no stored event is
\* active afterwards, and a read that follows a read of none returns none.
C13_ExpiresOnRead == [][ExpiresOnRead]_vars

PurchasedWithinStock ==
    \A line \in DOMAIN dbMerchantEventItems :
        dbMerchantEventItems[line].Purchased
            <= dbMerchantEventItems[line].Stock

OutOfStockRejected ==
    ret'.op = "PurchaseItem" =>
    \A w \in Workers, characterID \in BuyerArgs, line \in LineArgs :
        /\ dbUp /\ line \in DOMAIN dbMerchantEventItems
        /\ dbMerchantEventItems[line].Purchased
               = dbMerchantEventItems[line].Stock
        => \/ /\ ret' = Return("PurchaseItem", FALSE,
                                "item is out of stock", 0)
              /\ UNCHANGED <<dbVars, shopVars>>
           \/ ~PurchaseItem(w, characterID, line)

\* C14: for every merchant line item purchased <= stock holds in every
\* reachable state, whatever the interleaving of the concurrent purchases,
\* and a purchase attempted once purchased = stock fails as out of stock
\* and changes nothing.
C14_PurchasedWithinStock ==
    []PurchasedWithinStock /\ [][OutOfStockRejected]_vars

\* The quantity of an item in the inventory of a character, in the table
\* character_items.
Quantity(rows, characterID, itemID) ==
    IF <<characterID, itemID>> \in DOMAIN rows
    THEN rows[<<characterID, itemID>>]
    ELSE 0

AllOrNothing ==
    /\ \A w \in Workers :
           pending[w].op = "PurchaseItem" /\ pending'[w] = Idle =>
           LET p == pending[w]
               buyer == p.character.ID
           IN  \/ UNCHANGED <<dbMerchantEventItems, dbCharacterItems,
                              dbCharacters>>
               \/ /\ dbMerchantEventItems'[p.merchantEventItemID].Purchased
                      = dbMerchantEventItems[p.merchantEventItemID].Purchased
                        + 1
                  /\ Quantity(dbCharacterItems', buyer, p.itemID)
                      = Quantity(dbCharacterItems, buyer, p.itemID) + 1
                  /\ dbCharacters'[buyer].ChannelPointsSpent
                      = dbCharacters[buyer].ChannelPointsSpent + p.price
    /\ ~dbUp /\ ret'.op = "PurchaseItem" =>
           \/ UNCHANGED <<characters, inventories>>
           \/ \E buyer \in BuyerArgs :
                  /\ ret'.ok /\ ret'.id = buyer
                  /\ characters'[buyer].ChannelPointsSpent
                      = characters[buyer].ChannelPointsSpent + MemoryPrice
                  /\ Len(MemGetCharacterInventory(buyer)')
                      = Len(MemGetCharacterInventory(buyer)) + 1

\* C15: purchaseItem is all or nothing: when a call ends, a call in which a
\* statement failed included, either the purchase count of the line item,
\* the inventory of the buyer and the points the buyer has spent have all
\* changed (by 1, by 1 and by the price of the line), or none of them has.
C15_AllOrNothing == [][AllOrNothing]_vars

PurchaseAdds ==
    ret'.op = "PurchaseItem" /\ ret'.ok =>
    IF dbUp
    THEN \A w \in Workers :
             pending[w].op = "PurchaseItem" /\ pending'[w] = Idle =>
             LET p == pending[w]
                 buyer == p.character.ID
             IN  /\ Quantity(dbCharacterItems', buyer, p.itemID)
                      = Quantity(dbCharacterItems, buyer, p.itemID) + 1
                 /\ dbCharacters'[buyer].ChannelPointsSpent
                      = dbCharacters[buyer].ChannelPointsSpent
                        + 2 * Items[p.itemID].Value
                 /\ \A id \in DOMAIN dbCharacters \ {buyer} :
                        dbCharacters'[id] = dbCharacters[id]
                 /\ \A key \in DOMAIN dbCharacterItems :
                        key[1] # buyer =>
                        dbCharacterItems'[key] = dbCharacterItems[key]
    ELSE \E buyer \in BuyerArgs :
             /\ ret'.id = buyer
             /\ LET inventory == MemGetCharacterInventory(buyer)'
                    item == inventory[Len(inventory)]
                IN  /\ \A m, n \in DOMAIN inventory :
                           inventory[m] = inventory[n] => m = n
                    /\ characters'[buyer].ChannelPointsSpent
                         = characters[buyer].ChannelPointsSpent
                           + 2 * Items[item].Value
             /\ \A id \in DOMAIN characters \ {buyer} :
                    /\ characters'[id] = characters[id]
                    /\ MemGetCharacterInventory(id)'
                         = MemGetCharacterInventory(id)

\* C16: a successful purchaseItem adds the item of the line to the inventory
\* of the buyer, which holds at most one entry for a character and an item,
\* its quantity growing by 1 with each acquisition, and changes the points
\* the buyer has spent by the price of the line, 2 x the value of the item;
\* the inventory and the points of no other character change.
C16_PurchaseAdds == [][PurchaseAdds]_vars

ServedByMemory ==
    ~dbUp =>
    /\ ret'.err # "database connection not available"
    /\ \A w \in Workers, username \in Usernames, twitchUserID \in TwitchIDs :
           CreateCharacter(w, username, twitchUserID)
             /\ ~MemUsernameExists(username)
           => /\ ret'.ok
              /\ MemUsernameExists(username)'

\* C17: with no database at the start of the process every operation of the
\* services is served by the in-memory backend and none fails for want of
\* the database; a create of a free username in this mode succeeds and the
\* character is stored in the in-memory backend, where reads, upgrades and
\* duels find it.
C17_ServedByMemory == [][ServedByMemory]_vars

\* An inventory entry for the character and the item exists in the backend
\* in use.
Owns(characterID, itemID) ==
    IF dbUp
    THEN Quantity(dbCharacterItems, characterID, itemID) > 0
    ELSE \E n \in DOMAIN MemGetCharacterInventory(characterID) :
             MemGetCharacterInventory(characterID)[n] = itemID

EquipRequiresOwnership ==
    ret'.op = "EquipItem" =>
    \A characterID \in EquipCharacterArgs, itemID \in EquipItemArgs :
        \/ /\ ret'.ok =>
                  /\ itemID \in DOMAIN Items
                  /\ characterID \in DOMAIN Stored
                  /\ Owns(characterID, itemID)
           /\ ~Owns(characterID, itemID) =>
                  /\ ~ret'.ok
                  /\ UNCHANGED <<characters, dbCharacters>>
        \/ ~EquipItem(characterID, itemID)

SlotsTyped(row) ==
    \A slot \in Slots :
        SlotOf(row, slot) # NoItem =>
            /\ SlotOf(row, slot) \in DOMAIN Items
            /\ Items[SlotOf(row, slot)].Type = slot

EquipmentTyped ==
    /\ \A id \in DOMAIN dbCharacters : SlotsTyped(dbCharacters[id])
    /\ \A id \in DOMAIN characters : SlotsTyped(characters[id])

EquipmentFields ==
    {"BootsID", "PantsID", "ArmorID", "HelmetID", "RingID", "ChainID"}

\* The row after differs from the row before in the named slot at most, and
\* holds the value there.
OnlySlotSet(before, after, slot, value) ==
    /\ SlotOf(after, slot) = value
    /\ \A other \in Slots \ {slot} : SlotOf(after, other) = SlotOf(before, other)
    /\ DOMAIN after = DOMAIN before
    /\ \A field \in DOMAIN before \ EquipmentFields :
           after[field] = before[field]

\* What a successful call leaves of the store: the row of the character with
\* one slot set, every other row and the in-memory characters as they were.
OnlySlotChanged(characterID, slot, value) ==
    /\ characterID \in DOMAIN dbCharacters
    /\ DOMAIN dbCharacters' = DOMAIN dbCharacters
    /\ OnlySlotSet(dbCharacters[characterID], dbCharacters'[characterID],
                   slot, value)
    /\ \A id \in DOMAIN dbCharacters \ {characterID} :
           dbCharacters'[id] = dbCharacters[id]
    /\ UNCHANGED characters

EquipSetsMatchingSlot ==
    (ret'.op = "EquipItem" /\ ret'.ok) =>
    \A characterID \in EquipCharacterArgs, itemID \in EquipItemArgs :
        \/ /\ itemID \in DOMAIN Items
           /\ OnlySlotChanged(characterID, Items[itemID].Type, itemID)
        \/ ~EquipItem(characterID, itemID)

UnequipClearsNamedSlot ==
    (ret'.op = "UnequipItem" /\ ret'.ok) =>
    \A characterID \in EquipCharacterArgs, slotType \in EquipSlotArgs :
        \/ /\ slotType \in Slots
           /\ OnlySlotChanged(characterID, slotType, NoItem)
           /\ (SlotOf(dbCharacters[characterID], slotType) = NoItem
                  => UNCHANGED <<characters, dbCharacters>>)
        \/ ~UnequipItem(characterID, slotType)

ReadCharacters ==
    IF dbUp
    THEN {GetCharacterByID(id).char : id \in DOMAIN dbCharacters}
           \cup {GetCharacterByUsername(dbCharacters[id].Username).char :
                     id \in DOMAIN dbCharacters}
    ELSE {MemGetCharacterByID(id) : id \in DOMAIN characters}
           \cup {MemGetCharacterByUsername(characters[id].Username) :
                     id \in DOMAIN characters}

RECURSIVE SlotBonus(_, _, _)
\* The sum of one bonus over the items the populated slots name.
SlotBonus(c, slots, field) ==
    IF slots = {} THEN 0
    ELSE LET slot == CHOOSE x \in slots : TRUE
         IN  (IF SlotOf(c, slot) = NoItem THEN 0
              ELSE Items[SlotOf(c, slot)][field])
               + SlotBonus(c, slots \ {slot}, field)

BasePlusEquipped(c) ==
    [Strength |-> c.Strength + SlotBonus(c, Slots, "StrengthBonus"),
     Agility |-> c.Agility + SlotBonus(c, Slots, "AgilityBonus"),
     Vitality |-> c.Vitality + SlotBonus(c, Slots, "VitalityBonus"),
     Intelligence |-> c.Intelligence + SlotBonus(c, Slots, "IntelligenceBonus")]

PowerOver(stats, level) ==
    3 * stats.Strength + 2 * stats.Agility + 2 * stats.Vitality
      + stats.Intelligence + 5 * level

ReadShowsTotals ==
    \A c \in ReadCharacters :
        /\ c.TotalStats = BasePlusEquipped(c)
        /\ c.CombatPower = PowerOver(BasePlusEquipped(c), c.Level)

\* C20: every character a read by id or by username returns, and every
\* character combat resolution loads, in either backend, carries total stats
\* equal to its base stats plus the bonuses of exactly the items its
\* populated slots name, and the combat power 3*STR + 2*AGI + 2*VITALITY
\* + INT + 5*level over them; so a read after an equip shows the bonuses and
\* a read after the unequip shows the base values again.
C20_ReadShowsTotals == []ReadShowsTotals

\* The list names every stored character once, the higher level first and,
\* within a level, the higher experience first.
ListedInOrder(list) ==
    /\ Len(list) = Cardinality(DOMAIN Stored)
    /\ \A id \in DOMAIN Stored : \E n \in DOMAIN list : list[n].ID = id
    /\ \A i, j \in DOMAIN list :
           i < j =>
               \/ list[i].Level > list[j].Level
               \/ /\ list[i].Level = list[j].Level
                  /\ list[i].Experience >= list[j].Experience

\* C21: a listing of all characters returns every stored character exactly
\* once, ordered by level descending and, among equal levels, by experience
\* descending, in either backend.
C21_ListedInOrder ==
    /\ ret.op = "GetAllCharacters" => ret.ok /\ ListedInOrder(ret.list)

\* The event log of the backend in use.
EventLog == IF dbUp THEN dbEvents ELSE events

\* Every event stays, with every field but the flag, and a flag set stays
\* set.
LogKept ==
    /\ Len(EventLog') >= Len(EventLog)
    /\ \A i \in DOMAIN EventLog :
           \/ EventLog'[i] = EventLog[i]
           \/ EventLog'[i] = [EventLog[i] EXCEPT !.IsTriggered = TRUE]

MarkSetsFlag ==
    ret'.op = "MarkEventTriggered" =>
    \A eventID \in EventArgs :
        \/ IF \E i \in DOMAIN EventLog : EventLog[i].ID = eventID
           THEN /\ ret'.ok
                /\ EventLog' = [i \in DOMAIN EventLog |->
                                   IF EventLog[i].ID = eventID
                                   THEN [EventLog[i] EXCEPT !.IsTriggered = TRUE]
                                   ELSE EventLog[i]]
           ELSE /\ ~ret'.ok
                /\ ret'.err = "event not found"
                /\ UNCHANGED logVars
        \/ ~MarkEventTriggered(eventID)

\* C22: the event log is append-only and write-once except for the delivered
\* flag: marking an existing event succeeds and sets that event's flag and
\* nothing else, also when the flag was set already; no flag returns to
\* false and no event is removed; marking an unknown id fails with "event
\* not found" and changes no event.
C22_LogWriteOnce == [][LogKept /\ MarkSetsFlag]_vars

SpentNeverNegative ==
    /\ \A id \in DOMAIN characters : characters[id].ChannelPointsSpent >= 0
    /\ \A id \in DOMAIN dbCharacters : dbCharacters[id].ChannelPointsSpent >= 0

SpentNeverDecreases ==
    /\ \A id \in DOMAIN characters :
           characters'[id].ChannelPointsSpent >= characters[id].ChannelPointsSpent
    /\ \A id \in DOMAIN dbCharacters :
           dbCharacters'[id].ChannelPointsSpent
               >= dbCharacters[id].ChannelPointsSpent

\* C23: the spent-points counter of every character is never negative and
\* never decreases from one state to the next, whatever upgrades, purchases
\* and duels take place, in either backend.
C23_SpentAccumulates == []SpentNeverNegative /\ [][SpentNeverDecreases]_vars

\* What the reads of the in-memory store return.
StoreContents == <<characters, inventories, activeMerchant, merchants>>

CallerWriteKept ==
    ret'.op = "Mutate" => (StoreContents' = StoreContents \/ ~MutateReturned)

\* C24: in the in-memory backend a caller that writes to a record it
\* received from a create, a read, a listing, an inventory listing or
\* CreateMerchant, or to a record it has passed to UpdateCharacter, leaves
\* what the store's reads return unchanged.
C24_CallerWriteKept == [][CallerWriteKept]_vars

\* The ids of a sequence of records grow strictly and stay below the counter.
IdsIncrease(records, counter) ==
    /\ \A i, j \in DOMAIN records : i < j => records[i].ID < records[j].ID
    /\ \A i \in DOMAIN records : records[i].ID >= 1 /\ records[i].ID < counter

IdsDistinct ==
    /\ \A id \in DOMAIN characters :
           characters[id].ID = id /\ id >= 1 /\ id < nextCharacterID
    /\ IdsIncrease(combatLogs, nextCombatLogID)
    /\ IdsIncrease(merchants, nextMerchantID)

\* Every record created in the step takes the counter's value as its id,
\* which is above every id given before; the counters never go back, and a
\* creation that fails leaves its counter where it was.
IdsNeverReused ==
    /\ nextCharacterID' >= nextCharacterID
    /\ nextCombatLogID' >= nextCombatLogID
    /\ nextMerchantID' >= nextMerchantID
    /\ DOMAIN characters \subseteq DOMAIN characters'
    /\ \A id \in DOMAIN characters' \ DOMAIN characters :
           id = nextCharacterID /\ nextCharacterID' > id
    /\ Len(combatLogs') >= Len(combatLogs)
    /\ \A i \in DOMAIN combatLogs' \ DOMAIN combatLogs :
           combatLogs'[i].ID = nextCombatLogID /\ nextCombatLogID' > nextCombatLogID
    /\ Len(merchants') >= Len(merchants)
    /\ \A i \in DOMAIN merchants' \ DOMAIN merchants :
           merchants'[i].ID = nextMerchantID /\ nextMerchantID' > nextMerchantID
    /\ ~ret'.ok =>
           UNCHANGED <<nextCharacterID, nextCombatLogID, nextMerchantID>>

\* C25: in the in-memory backend the ids given to characters, to combat-log
\* entries and to merchant events are pairwise distinct within each kind and
\* grow strictly in the order of creation; no id counter ever decreases, and
\* a creation that fails consumes no id.
C25_IdsNeverReused == []IdsDistinct /\ [][IdsNeverReused]_vars

\* Two characters, two combat-log entries and two merchant events exist and
\* the creation of a third character under a taken name has just failed.
C25_Witness ==
    /\ ret = Return("CreateCharacter", FALSE, "already exists", 0)
    /\ nextCharacterID = 3
    /\ Len(combatLogs) = 2
    /\ Len(merchants) = 2

\* The record a duel in flight read for the character that wins it, and the
\* experience the duel grants.
ReadAsWinner(w) ==
    IF pending[w].defenderWins THEN pending[w].defender ELSE pending[w].attacker

GrantOf(w) ==
    BaseExperienceReward
      + ExperiencePerLoserLevel
          * (IF pending[w].defenderWins
             THEN pending[w].attacker.Level ELSE pending[w].defender.Level)

Granted(c, grant) == CheckLevelUp([c EXCEPT !.Experience = @ + grant])

\* Worker first has written its winner, worker second writes the same
\* character next, and both read the same record of it.
SecondUpdateLands(first, second) ==
    /\ first # second
    /\ pending[first].op = "StartCombat" /\ pending[first].step = "log"
    /\ pending[second].op = "StartCombat" /\ pending[second].step = "update"
    /\ ReadAsWinner(first) = ReadAsWinner(second)
    /\ pending'[second].op = "StartCombat" /\ pending'[second].step = "log"

LastUpdateWins ==
    \A first, second \in Workers :
        SecondUpdateLands(first, second) =>
            LET start == ReadAsWinner(second)
                one == Granted(start, GrantOf(second))
                both == Granted(Granted(start, GrantOf(first)), GrantOf(second))
                kept == characters'[start.ID]
            IN  /\ kept.Level = one.Level
                /\ kept.Experience = one.Experience
                /\ <<kept.Level, kept.Experience>>
                       # <<both.Level, both.Experience>>

\* C26: two concurrent duels of the in-memory backend that involve the same
\* character race: when both read the same record of it and both are won by
\* it, the update that lands last overwrites the other, and the character's
\* persisted experience and level hold one of the two grants only, while
\* each duel leaves its combat-log entry.
C26_LastUpdateWins == [][LastUpdateWins]_vars

\* Both duels are over: two log entries name character 1 the winner, and it
\* is stored at level 1 with the experience of a single win.
C26_Witness ==
    /\ \A w \in Workers : pending[w] = Idle
    /\ Len(combatLogs) = 2
    /\ \A i \in DOMAIN combatLogs : combatLogs[i].WinnerID = 1
    /\ characters[1].Level = 1
    /\ characters[1].Experience
           = BaseExperienceReward + ExperiencePerLoserLevel

\* The calls whose function of the in-memory backend takes the lock in read
\* mode (mutex.RLock); every other one takes it in write mode (mutex.Lock).
ReadLocked ==
    {"GetCharacterByID", "GetCharacterByUsername", "GetAllCharacters",
     "GetCharacterInventory", "GetCurrentEvent"}

\* The maps, slices, counters and the active-merchant reference the lock
\* guards.
MemoryState ==
    <<characters, nextCharacterID, combatLogs, nextCombatLogID, events,
      merchants, activeMerchant, nextMerchantID, inventories>>

WritesHoldWriteLock ==
    (~dbUp /\ MemoryState' # MemoryState) => ret'.op \notin ReadLocked

\* C27: every write to the shared state of the in-memory backend happens
\* under the lock held in write mode: no operation that holds the lock in
\* read mode only changes a map, a slice, a counter or the active-merchant
\* reference.
C27_WritesHoldWriteLock == [][WritesHoldWriteLock]_vars

\* The persisted fields of a character the two backends are compared on.
Persisted(c) ==
    [Level |-> c.Level, Experience |-> c.Experience,
     ChannelPointsSpent |-> c.ChannelPointsSpent,
     Strength |-> c.Strength, Agility |-> c.Agility,
     Vitality |-> c.Vitality, Intelligence |-> c.Intelligence]

Logged(log) ==
    [AttackerID |-> log.AttackerID, DefenderID |-> log.DefenderID,
     WinnerID |-> log.WinnerID, AttackerPower |-> log.AttackerPower,
     DefenderPower |-> log.DefenderPower]

\* A duel of the relational path leaves what the in-memory path makes of
\* the records the duel read and of its draw.
DuelAsInMemory(attackerID, defenderID, roll) ==
    LET duel == MemoryDuel(GetCharacterByID(attackerID).char,
                           GetCharacterByID(defenderID).char, roll)
    IN  /\ ret'.id = duel.winner.ID
        /\ Persisted(dbCharacters'[duel.winner.ID]) = Persisted(duel.winner)
        /\ Logged(dbCombatLogs'[Len(dbCombatLogs')]) = duel.log

BackendsAgree ==
    (dbUp /\ ret'.op = "StartCombat" /\ ret'.ok) =>
    \A attackerID \in CharacterArgs, defenderID \in CharacterArgs,
       roll \in Rolls :
        \/ ~StartCombat(attackerID, defenderID, roll)
        \/ DuelAsInMemory(attackerID, defenderID, roll)

\* C28: the two backends are interchangeable for a duel: for the same
\* attacker and defender records and the same draw the relational path and
\* the in-memory path choose the same winner, leave it with the same level,
\* experience, spent points and base stats, and log the same attacker id,
\* defender id, winner id and powers.
C28_BackendsAgree == [][BackendsAgree]_vars

NotBelow(before, after) ==
    /\ after.Level >= before.Level
    /\ after.Strength >= before.Strength
    /\ after.Agility >= before.Agility
    /\ after.Vitality >= before.Vitality
    /\ after.Intelligence >= before.Intelligence

ProgressKept ==
    /\ \A id \in DOMAIN characters : NotBelow(characters[id], characters'[id])
    /\ \A id \in DOMAIN dbCharacters :
           NotBelow(dbCharacters[id], dbCharacters'[id])

\* C29: whatever upgrades, equips, unequips, purchases and duels take place,
\* one after the other or interleaved, the persisted level and the four
\* base stats of a character never decrease from one state to the next.
C29_ProgressKept == [][ProgressKept]_vars

\* A shop is open for the purchase: with no database, the active event that
\* is not past its end; with one, the event of the line item bought is
\* active and not past its end.
MemShopOpen ==
    /\ activeMerchant # NoMerchant
    /\ activeMerchant.IsActive
    /\ activeMerchant.EndTime > now

LineOfOpenShop(merchantEventItemID) ==
    /\ merchantEventItemID \in DOMAIN dbMerchantEventItems
    /\ dbMerchantEventItems[merchantEventItemID].MerchantEventID
           \in CurrentEvents

PurchaseOfOpenShop ==
    IF dbUp
    THEN \E w \in Workers :
             /\ pending[w].op = "PurchaseItem"
             /\ pending'[w] = Idle
             /\ LineOfOpenShop(pending[w].merchantEventItemID)
    ELSE MemShopOpen

\* What a purchase changes: inventories, counters and stock.
PurchaseState ==
    <<characters, inventories, dbCharacters, dbCharacterItems,
      dbMerchantEventItems>>

PurchaseOnlyWhenOpen ==
    ret'.op = "PurchaseItem" =>
        /\ ret'.ok => PurchaseOfOpenShop
        /\ PurchaseState' # PurchaseState => PurchaseOfOpenShop

\* C30: a purchase succeeds only if the line item belongs to the merchant
\* event that is active and not past its end at that moment; with the event
\* deactivated or expired, or with no event ever created, every purchase
\* attempt fails and changes no inventory, counter or stock.
C30_PurchaseOnlyWhenOpen == [][PurchaseOnlyWhenOpen]_vars

=============================================================================
